---- MODULE Spec2Model ----
(***************************************************************************)
(* A model of the psx-rs CPU interpreter (src/src/cpu/mod.rs) and of its   *)
(* BIOS image (src/src/bios/mod.rs).                                       *)
(*                                                                         *)
(* TLC's integers are 32-bit signed, so a u32 of the program is the pair   *)
(* <<high 16 bits, low 16 bits>>; every operation below is the u32         *)
(* operation of the source on that pair (wrapping modulo 2^32).            *)
(***************************************************************************)
EXTENDS Integers, Sequences, FiniteSets, TLC

VARIABLES
    pc,             \* Cpu.pc
    next_pc,        \* Cpu.next_pc
    current_pc,     \* Cpu.current_pc
    regs,           \* Cpu.regs
    hi,             \* Cpu.hi
    lo,             \* Cpu.lo
    icache,         \* Cpu.icache (lines never touched are ICacheLine::new())
    load,           \* Cpu.load: <<target register, value>>
    branch,         \* Cpu.branch
    delay_slot,     \* Cpu.delay_slot
    debug_on_break, \* Cpu.debug_on_break
    cop0,           \* Cpu.cop0: [sr, cause, epc]
    gte,            \* Cpu.gte: [data, control, commands]
    mem,            \* Cpu.inter: the words of memory read or written so far
    cache_control,  \* Cpu.inter.cache_control(): [icache_enabled, tag_test_mode]
    tk,             \* shared.tk(): [now, next_sync, syncs]
    fatal,          \* the process hit a panic!() and is gone
    pre,            \* history: the CPU as it was when the last call began
    trace,          \* history: one record per call made so far
    frame,          \* shared.counters().frame
    rnf,            \* run_until_next_frame: where its last call stands
    bios,           \* a Bios: [data, metadata]
    bios_pre,       \* history: the Bios as it was when the last call began
    ret             \* history: the last call on the Bios and its result

vars == <<pc, next_pc, current_pc, regs, hi, lo, icache, load, branch,
          delay_slot, debug_on_break, cop0, gte, mem, cache_control, tk,
          fatal, pre, trace, frame, rnf, bios, bios_pre, ret>>

(***************************************************************************)
(* u32 arithmetic on <<high, low>> pairs                                   *)
(***************************************************************************)
H16 == 2^16

W(h, l) == <<h, l>>

Zero == W(0, 0)

U(n) == W(0, n)

wrapping_add(a, b) ==
    LET l == a[2] + b[2]
        h == a[1] + b[1] + (l \div H16)
    IN  W(h % H16, l % H16)

wrapping_sub(a, b) ==
    LET l == a[2] - b[2] + H16
        h == a[1] - b[1] + (H16 - 1) + (l \div H16)
    IN  W(h % H16, l % H16)

RECURSIVE And16(_, _)
And16(a, b) ==
    IF a = 0 \/ b = 0 THEN 0
    ELSE (a % 2) * (b % 2) + 2 * And16(a \div 2, b \div 2)

RECURSIVE Or16(_, _)
Or16(a, b) ==
    IF a = 0 THEN b
    ELSE IF b = 0 THEN a
    ELSE (IF a % 2 = 1 \/ b % 2 = 1 THEN 1 ELSE 0) + 2 * Or16(a \div 2, b \div 2)

RECURSIVE Xor16(_, _)
Xor16(a, b) ==
    IF a = 0 THEN b
    ELSE IF b = 0 THEN a
    ELSE ((a + b) % 2) + 2 * Xor16(a \div 2, b \div 2)

And32(a, b) == W(And16(a[1], b[1]), And16(a[2], b[2]))

Or32(a, b) == W(Or16(a[1], b[1]), Or16(a[2], b[2]))

Xor32(a, b) == W(Xor16(a[1], b[1]), Xor16(a[2], b[2]))

Not32(a) == W(H16 - 1 - a[1], H16 - 1 - a[2])

\* a << n for 0 <= n <= 31
Shl32(a, n) ==
    IF n >= 16 THEN W((a[2] * 2^(n - 16)) % H16, 0)
    ELSE W((a[1] * 2^n + ((a[2] * 2^n) \div H16)) % H16, (a[2] * 2^n) % H16)

\* a >> n (logical) for 0 <= n <= 31
Shr32(a, n) ==
    IF n >= 16 THEN W(0, a[1] \div 2^(n - 16))
    ELSE W(a[1] \div 2^n, (a[2] \div 2^n) + (a[1] % 2^n) * 2^(16 - n))

IsNeg(a) == a[1] >= 2^15

\* (a as i32) >> n for 0 <= n <= 31
Sar32(a, n) ==
    IF IsNeg(a) THEN Not32(Shr32(Not32(a), n)) ELSE Shr32(a, n)

\* a < b as u32
Ltu(a, b) == a[1] < b[1] \/ (a[1] = b[1] /\ a[2] < b[2])

\* (a as i32) < (b as i32)
Lts(a, b) ==
    Ltu(W((a[1] + 2^15) % H16, a[2]), W((b[1] + 2^15) % H16, b[2]))

\* the u32 as an i32, which TLC's integers hold
ToI32(a) == (IF IsNeg(a) THEN a[1] - H16 ELSE a[1]) * H16 + a[2]

\* an i32 as u32
FromI32(x) == W((x \div H16) % H16, x % H16)

\* the four bytes of a u32, least significant first
Bytes(a) == <<a[2] % 256, a[2] \div 256, a[1] % 256, a[1] \div 256>>

FromBytes(b) == W(b[4] * 256 + b[3], b[2] * 256 + b[1])

MulCol(A, B, k) ==
    LET term(i) == IF (k + 2 - i) \in 1..4 THEN A[i] * B[k + 2 - i] ELSE 0
    IN  term(1) + term(2) + term(3) + term(4)

RECURSIVE MulDigits(_, _, _, _)
MulDigits(A, B, k, carry) ==
    IF k = 8 THEN <<>>
    ELSE LET s == (IF k <= 6 THEN MulCol(A, B, k) ELSE 0) + carry
         IN  <<s % 256>> \o MulDigits(A, B, k + 1, s \div 256)

\* (a as u64) * (b as u64): [hi, lo]
MulU64(a, b) ==
    LET d == MulDigits(Bytes(a), Bytes(b), 0, 0)
    IN  [hi |-> FromBytes(SubSeq(d, 5, 8)), lo |-> FromBytes(SubSeq(d, 1, 4))]

Abs32(a) == IF IsNeg(a) THEN wrapping_sub(Zero, a) ELSE a

Neg64(p) ==
    [hi |-> IF p.lo = Zero THEN wrapping_sub(Zero, p.hi) ELSE Not32(p.hi),
     lo |-> wrapping_sub(Zero, p.lo)]

\* ((a as i32) as i64) * ((b as i32) as i64) as u64: [hi, lo]
MulS64(a, b) ==
    LET m == MulU64(Abs32(a), Abs32(b))
    IN  IF IsNeg(a) # IsNeg(b) THEN Neg64(m) ELSE m

\* restoring division, from bit i of the dividend down to bit `last`, with
\* the quotient q and the remainder r of the bits above i
RECURSIVE DivBits(_, _, _, _, _, _)
DivBits(n, dv, i, last, q, r) ==
    IF i < last THEN [q |-> q, r |-> r]
    ELSE LET top == IsNeg(r)
             r2  == wrapping_add(Shl32(r, 1), U(Shr32(n, i)[2] % 2))
         IN  IF top \/ ~Ltu(r2, dv)
             THEN DivBits(n, dv, i - 1, last, wrapping_add(q, Shl32(U(1), i)),
                          wrapping_sub(r2, dv))
             ELSE DivBits(n, dv, i - 1, last, q, r2)

\* n / dv and n % dv as u32, dv # 0: [q, r]
DivU32(n, dv) ==
    LET b3 == DivBits(n, dv, 31, 24, Zero, Zero)
        b2 == DivBits(n, dv, 23, 16, b3.q, b3.r)
        b1 == DivBits(n, dv, 15, 8, b2.q, b2.r)
    IN  DivBits(n, dv, 7, 0, b1.q, b1.r)

\* n / d and n % d as i32 (truncating), d # 0 and not MIN / -1: [q, r]
DivS32(n, d) ==
    LET m == DivU32(Abs32(n), Abs32(d))
    IN  [q |-> IF IsNeg(n) # IsNeg(d) THEN wrapping_sub(Zero, m.q) ELSE m.q,
         r |-> IF IsNeg(n) THEN wrapping_sub(Zero, m.r) ELSE m.r]

SHalf(a) == IF IsNeg(a) THEN a[1] - H16 ELSE a[1]

None == [some |-> FALSE, v |-> Zero]

Some(v) == [some |-> TRUE, v |-> v]

\* i32::checked_add
checked_add(s, t) ==
    LET l == s[2] + t[2]
        h == SHalf(s) + SHalf(t) + (l \div H16)
    IN  IF h >= -(2^15) /\ h < 2^15 THEN Some(W(h % H16, l % H16)) ELSE None

\* i32::checked_sub
checked_sub(s, t) ==
    LET l == s[2] - t[2]
        h == SHalf(s) - SHalf(t) + (l \div H16)
    IN  IF h >= -(2^15) /\ h < 2^15 THEN Some(W(h % H16, l % H16)) ELSE None

(***************************************************************************)
(* Instruction: field accessors                                            *)
(***************************************************************************)
function(op) == op[1] \div 1024

subfunction(op) == op[2] % 64

cop_opcode(op) == (op[1] \div 32) % 32

s(op) == (op[1] \div 32) % 32

t(op) == op[1] % 32

d(op) == op[2] \div 2048

imm(op) == W(0, op[2])

imm_se(op) == W(IF op[2] >= 2^15 THEN H16 - 1 ELSE 0, op[2])

shift(op) == (op[2] \div 64) % 32

imm_jump(op) == W(op[1] % 1024, op[2])

is_gte_op(op) == function(op) = 17

(***************************************************************************)
(* Cop0 (cpu/cop0.rs is not among the sources: modelled from the           *)
(* specification, sections 3, 4.3 and 4.7)                                 *)
(***************************************************************************)
ExceptionCode(cause) ==
    CASE cause = "Interrupt"          -> 0
      [] cause = "LoadAddressError"   -> 4
      [] cause = "StoreAddressError"  -> 5
      [] cause = "SysCall"            -> 8
      [] cause = "Break"              -> 9
      [] cause = "IllegalInstruction" -> 10
      [] cause = "CoprocessorError"   -> 11
      [] cause = "Overflow"           -> 12

Cop0_new == [sr |-> Zero, cause |-> Zero, epc |-> Zero]

\* SR[22], BEV
bev(cp) == (cp.sr[1] \div 64) % 2 = 1

\* SR[16], IsC
cache_isolated(cp) == cp.sr[1] % 2 = 1

\* SR[0], IEc
irq_enabled(cp) == cp.sr[2] % 2 = 1

\* CAUSE as read by the guest: the stored bits, with the external interrupt
\* line in bit 10
cop0_cause(cp, irq_state) == Or32(cp.cause, W(0, IF irq_state THEN 1024 ELSE 0))

irq_active(cp, irq_state) ==
    /\ irq_enabled(cp)
    /\ And16(And16(cop0_cause(cp, irq_state)[2], cp.sr[2]), 65280) # 0

\* returns the new Cop0 and the handler address
enter_exception(cp, cause, epc_pc, in_delay_slot) ==
    LET mode   == cp.sr[2] % 64
        sr2    == W(cp.sr[1], cp.sr[2] - mode + ((mode * 4) % 64))
        code   == (cp.cause[2] \div 4) % 32
        cause2 == W((cp.cause[1] % (2^15)) + (IF in_delay_slot THEN 2^15 ELSE 0),
                    cp.cause[2] - code * 4 + ExceptionCode(cause) * 4)
        epc2   == IF in_delay_slot THEN wrapping_sub(epc_pc, U(4)) ELSE epc_pc
    IN  [cop0    |-> [sr |-> sr2, cause |-> cause2, epc |-> epc2],
         handler |-> IF bev(cp) THEN W(49088, 384) ELSE W(32768, 128)]

return_from_exception(cp) ==
    LET mode == cp.sr[2] % 64
    IN  [cp EXCEPT !.sr = W(cp.sr[1], cp.sr[2] - (mode % 16) + (mode \div 4))]

set_sr(cp, v) == [cp EXCEPT !.sr = v]

\* only the software interrupt bits [9:8] are writable
set_cause(cp, v) ==
    [cp EXCEPT !.cause = Or32(And32(cp.cause, Not32(U(768))), And32(v, U(768)))]

(***************************************************************************)
(* Gte (cpu/gte is not among the sources: a register file that returns     *)
(* what was last written, and a count of the commands it was given)        *)
(***************************************************************************)
Gte_new == [data |-> <<>>, control |-> <<>>, commands |-> 0]

GteRead(f, r) == IF r \in DOMAIN f THEN f[r] ELSE Zero

GteWrite(f, r, v) == (r :> v) @@ f

gte_command(g, op) == [g EXCEPT !.commands = @ + 1]

gte_data(g, r) == GteRead(g.data, r)

gte_control(g, r) == GteRead(g.control, r)

gte_set_data(g, r, v) == [g EXCEPT !.data = GteWrite(@, r, v)]

gte_set_control(g, r, v) == [g EXCEPT !.control = GteWrite(@, r, v)]

(***************************************************************************)
(* ICacheLine                                                              *)
(***************************************************************************)
\* lines that start with the trap word badc0de5
ICacheLine_new_trap ==
    [tag_valid |-> Zero,
     line |-> <<W(47836, 3557), W(47836, 3557), W(47836, 3557), W(47836, 3557)>>]

\* ICacheLine::new
ICacheLine_new == [tag_valid |-> Zero, line |-> <<Zero, Zero, Zero, Zero>>]

tag(l) == And32(l.tag_valid, W(65535, 61440))

\* a line whose every word counts as valid
valid_index_always_zero(l) == 0

valid_index(l) == (l.tag_valid[2] \div 4) % 8

\* a tag that marks the whole line valid
set_tag_valid_whole_line(l, addr) ==
    [l EXCEPT !.tag_valid = And32(addr, W(32767, 61440))]

\* a tag that keeps the top bit of the address
set_tag_valid_keeps_msb(l, addr) ==
    [l EXCEPT !.tag_valid = And32(addr, W(65535, 61452))]

set_tag_valid(l, addr) == [l EXCEPT !.tag_valid = And32(addr, W(32767, 61452))]

\* an invalidation that does nothing
invalidate_nothing(l) == l

invalidate(l) == [l EXCEPT !.tag_valid = Or32(@, U(16))]

instruction(l, index) == l.line[index + 1]

set_instruction(l, index, op) == [l EXCEPT !.line[index + 1] = op]

\* self.icache[line]
ICacheAt(ic, n) == IF n \in DOMAIN ic THEN ic[n] ELSE ICacheLine_new

ICachePut(ic, n, l) == (n :> l) @@ ic

(***************************************************************************)
(* Interconnect (memory is not among the sources: a flat little-endian     *)
(* memory of words; a word is in `mem` once it has been read or written)   *)
(***************************************************************************)
AlignWord(addr) == W(addr[1], addr[2] - (addr[2] % 4))

load_instruction(m, addr) == m[addr]

\* Interconnect::load::<A>, A::size() = width
inter_load(m, width, addr) ==
    LET b == Bytes(m[AlignWord(addr)])
        o == addr[2] % 4
    IN  CASE width = 1 -> U(b[o + 1])
          [] width = 2 -> U(b[o + 1] + 256 * b[o + 2])
          [] width = 4 -> m[addr]

\* Interconnect::store::<A>
inter_store(m, width, addr, val) ==
    LET a == AlignWord(addr)
        b == Bytes(m[a])
        v == Bytes(val)
        o == addr[2] % 4
        n == CASE width = 1 -> [b EXCEPT ![o + 1] = v[1]]
               [] width = 2 -> [b EXCEPT ![o + 1] = v[1], ![o + 2] = v[2]]
               [] width = 4 -> v
    IN  (a :> FromBytes(n)) @@ m

tick(k, n) == [k EXCEPT !.now = @ + n]

\* the peripherals ask for their next synchronisation this many ticks ahead
SyncPeriod == 8

(***************************************************************************)
(* Cpu.  A CPU is the record `c` of the struct's fields (with the          *)
(* interconnect's memory and cache control, and the timekeeper, which a    *)
(* step reaches through it), and the record of what the step did so far:   *)
(*   panicked  a panic!() was reached                                      *)
(*   exc       the exceptions entered, in order                            *)
(*   iloads    the addresses given to Interconnect::load_instruction       *)
(*   stores    the addresses given to Interconnect::store                  *)
(*   breaks    the calls of Debugger::trigger_break                        *)
(***************************************************************************)
panic(c) == [c EXCEPT !.panicked = TRUE]

\* Cpu::reg
reg(c, index) == c.regs[index]

\* set_reg without its second assignment, the one that keeps R0 at zero
set_reg_without_r0_reset(c, index, val) ==
    [c EXCEPT !.regs = [c.regs EXCEPT ![index] = val]]

\* Cpu::set_reg
set_reg(c, index, val) ==
    [c EXCEPT !.regs = [[c.regs EXCEPT ![index] = val] EXCEPT ![0] = Zero]]

\* Cpu::delayed_load
delayed_load(c) ==
    [set_reg(c, c.load[1], c.load[2]) EXCEPT !.load = <<0, Zero>>]

\* delayed_load_chain without its test: the pending load is always committed
delayed_load_chain_always_commits(c, index, val) ==
    [set_reg(c, c.load[1], c.load[2]) EXCEPT !.load = <<index, val>>]

\* Cpu::delayed_load_chain
delayed_load_chain(c, index, val) ==
    LET c1 == IF c.load[1] # index THEN set_reg(c, c.load[1], c.load[2]) ELSE c
    IN  [c1 EXCEPT !.load = <<index, val>>]

\* a branch that moves the PC at once, leaving no delay slot
cpu_branch_without_delay_slot(c, offset) ==
    LET target == wrapping_add(c.pc, Shl32(offset, 2))
    IN  [c EXCEPT !.pc = target, !.next_pc = wrapping_add(target, U(4)),
                  !.branch = TRUE]

\* a branch relative to the branch instruction itself, not to its delay slot
cpu_branch_from_current_pc(c, offset) ==
    [c EXCEPT !.next_pc = wrapping_add(c.current_pc, Shl32(offset, 2)),
              !.branch  = TRUE]

\* Cpu::branch
cpu_branch(c, offset) ==
    [c EXCEPT !.next_pc = wrapping_add(c.pc, Shl32(offset, 2)),
              !.branch  = TRUE]

\* exception without its last assignment: next_pc keeps its value
exception_keeps_next_pc(c, cause) ==
    LET r == enter_exception(c.cop0, cause, c.current_pc, c.delay_slot)
    IN  [c EXCEPT !.cop0 = r.cop0,
                  !.pc   = r.handler,
                  !.exc  = Append(@, cause)]

\* an exception taken like a branch: the handler only becomes the next PC
exception_as_branch(c, cause) ==
    LET r == enter_exception(c.cop0, cause, c.current_pc, c.delay_slot)
    IN  [c EXCEPT !.cop0    = r.cop0,
                  !.next_pc = r.handler,
                  !.exc     = Append(@, cause)]

\* Cpu::exception
exception(c, cause) ==
    LET r == enter_exception(c.cop0, cause, c.current_pc, c.delay_slot)
    IN  [c EXCEPT !.cop0    = r.cop0,
                  !.pc      = r.handler,
                  !.next_pc = wrapping_add(r.handler, U(4)),
                  !.exc     = Append(@, cause)]

\* Cpu::load::<A>: the value read
cpu_load(c, width, addr) == inter_load(c.mem, width, addr)

\* cache_maintenance without the test of the tag test mode: every write
\* invalidates
cache_maintenance_always_invalidates(c, width, addr, val) ==
    IF ~c.cc.icache_enabled THEN panic(c)
    ELSE IF width # 4 \/ val # Zero THEN panic(c)
    ELSE LET n == (addr[2] \div 16) % 256
         IN  [c EXCEPT !.icache = ICachePut(@, n, invalidate(ICacheAt(@, n)))]

\* Cpu::cache_maintenance::<A>
cache_maintenance(c, width, addr, val) ==
    IF ~c.cc.icache_enabled THEN panic(c)
    ELSE IF width # 4 \/ val # Zero THEN panic(c)
    ELSE LET n == (addr[2] \div 16) % 256
             l == ICacheAt(c.icache, n)
         IN  IF c.cc.tag_test_mode
             THEN [c EXCEPT !.icache = ICachePut(@, n, invalidate(l))]
             ELSE [c EXCEPT !.icache =
                      ICachePut(@, n, set_instruction(l, (addr[2] \div 4) % 4, val))]

\* store without the test of the cache isolation
cpu_store_ignores_isolation(c, width, addr, val) ==
    [c EXCEPT !.mem    = inter_store(@, width, addr, val),
              !.stores = Append(@, addr)]

\* Cpu::store::<A>
cpu_store(c, width, addr, val) ==
    IF cache_isolated(c.cop0)
    THEN cache_maintenance(c, width, addr, val)
    ELSE [c EXCEPT !.mem    = inter_store(@, width, addr, val),
                   !.stores = Append(@, addr)]

\* the loop of a cache miss: words index..3 of the line, from cpc on
RECURSIVE FillLine(_, _, _, _)
FillLine(l, m, i, cpc) ==
    IF i >= 4 THEN l
    ELSE FillLine(set_instruction(l, i, load_instruction(m, cpc)),
                  m, i + 1, wrapping_add(cpc, U(4)))

FillAddrs(cpc, index) ==
    [j \in 1..(4 - index) |-> wrapping_add(cpc, U(4 * (j - 1)))]

\* cached && cc.icache_enabled()
FetchCached(c) == Ltu(c.current_pc, W(40960, 0)) /\ c.cc.icache_enabled

\* the test of the tag alone
FetchMiss_ignores_valid_index(c) ==
    LET l == ICacheAt(c.icache, (c.current_pc[2] \div 16) % 256)
    IN  tag(l) # And32(c.current_pc, W(32767, 61440))

\* line.tag() != tag || line.valid_index() > index
FetchMiss(c) ==
    LET l     == ICacheAt(c.icache, (c.current_pc[2] \div 16) % 256)
        index == (c.current_pc[2] \div 4) % 4
    IN  tag(l) # And32(c.current_pc, W(32767, 61440)) \/ valid_index(l) > index

\* fetch_instruction with a miss that costs the same wherever it starts
fetch_instruction_flat_miss(c) ==
    LET cpc   == c.current_pc
        n     == (cpc[2] \div 16) % 256
        index == (cpc[2] \div 4) % 4
        l     == ICacheAt(c.icache, n)
    IN  IF FetchCached(c)
        THEN IF FetchMiss(c)
             THEN LET l2 == set_tag_valid(FillLine(l, c.mem, index, cpc), cpc)
                  IN  [c |-> [c EXCEPT !.tk     = tick(@, 3 + 4),
                                       !.icache = ICachePut(@, n, l2),
                                       !.iloads = @ \o FillAddrs(cpc, index)],
                       instruction |-> instruction(l2, index)]
             ELSE [c |-> c, instruction |-> instruction(l, index)]
        ELSE [c |-> [c EXCEPT !.tk = tick(@, 4), !.iloads = Append(@, cpc)],
              instruction |-> load_instruction(c.mem, cpc)]

\* Cpu::fetch_instruction: the CPU after the fetch and the instruction
fetch_instruction(c) ==
    LET cpc   == c.current_pc
        n     == (cpc[2] \div 16) % 256
        index == (cpc[2] \div 4) % 4
        l     == ICacheAt(c.icache, n)
    IN  IF FetchCached(c)
        THEN IF FetchMiss(c)
             THEN LET l2 == set_tag_valid(FillLine(l, c.mem, index, cpc), cpc)
                  IN  [c |-> [c EXCEPT !.tk     = tick(@, 3 + (4 - index)),
                                       !.icache = ICachePut(@, n, l2),
                                       !.iloads = @ \o FillAddrs(cpc, index)],
                       instruction |-> instruction(l2, index)]
             ELSE [c |-> c, instruction |-> instruction(l, index)]
        ELSE [c |-> [c EXCEPT !.tk = tick(@, 4), !.iloads = Append(@, cpc)],
              instruction |-> load_instruction(c.mem, cpc)]

\* the addresses fetch_instruction gives to load_instruction
FetchAddrs(c) ==
    IF FetchCached(c)
    THEN IF FetchMiss(c)
         THEN {wrapping_add(c.current_pc, U(4 * j)) :
                   j \in 0..(3 - ((c.current_pc[2] \div 4) % 4))}
         ELSE {}
    ELSE {c.current_pc}

(***************************************************************************)
(* The instructions                                                        *)
(***************************************************************************)
Bool32(b) == IF b THEN U(1) ELSE Zero

SignExt8(b) == IF b >= 128 THEN W(H16 - 1, 65280 + b) ELSE U(b)

SignExt16(h) == W(IF h >= 2^15 THEN H16 - 1 ELSE 0, h)

\* an illegal instruction that enters the exception with the load pending
op_illegal_keeps_pending_load(c, op) == exception(c, "IllegalInstruction")

op_illegal(c, op) == exception(delayed_load(c), "IllegalInstruction")

op_sll(c, op) ==
    LET v == Shl32(reg(c, t(op)), shift(op))
    IN  set_reg(delayed_load(c), d(op), v)

op_srl(c, op) ==
    LET v == Shr32(reg(c, t(op)), shift(op))
    IN  set_reg(delayed_load(c), d(op), v)

op_sra(c, op) ==
    LET v == Sar32(reg(c, t(op)), shift(op))
    IN  set_reg(delayed_load(c), d(op), v)

op_sllv(c, op) ==
    LET v == Shl32(reg(c, t(op)), reg(c, s(op))[2] % 32)
    IN  set_reg(delayed_load(c), d(op), v)

op_srlv(c, op) ==
    LET v == Shr32(reg(c, t(op)), reg(c, s(op))[2] % 32)
    IN  set_reg(delayed_load(c), d(op), v)

op_srav(c, op) ==
    LET v == Sar32(reg(c, t(op)), reg(c, s(op))[2] % 32)
    IN  set_reg(delayed_load(c), d(op), v)

\* op_bxx with the link written before the register is tested
op_bxx_tests_after_link(c, op) ==
    LET is_bgez == op[1] % 2
        is_link == (op[1] \div 2) % 16 = 8
        c1      == delayed_load(c)
        c2      == IF is_link THEN set_reg(c1, 31, c1.next_pc) ELSE c1
        test    == (IF IsNeg(reg(c2, s(op))) THEN 1 ELSE 0) # is_bgez
    IN  IF test THEN cpu_branch(c2, imm_se(op)) ELSE c2

op_bxx(c, op) ==
    LET is_bgez == op[1] % 2
        is_link == (op[1] \div 2) % 16 = 8
        test    == (IF IsNeg(reg(c, s(op))) THEN 1 ELSE 0) # is_bgez
        c1      == delayed_load(c)
        c2      == IF is_link THEN set_reg(c1, 31, c1.next_pc) ELSE c1
    IN  IF test THEN cpu_branch(c2, imm_se(op)) ELSE c2

op_jr(c, op) ==
    LET c1 == [c EXCEPT !.next_pc = reg(c, s(op))]
    IN  [delayed_load(c1) EXCEPT !.branch = TRUE]

op_jalr(c, op) ==
    LET ra == c.next_pc
        c1 == [c EXCEPT !.next_pc = reg(c, s(op))]
    IN  [set_reg(delayed_load(c1), d(op), ra) EXCEPT !.branch = TRUE]

op_syscall(c, op) == exception(delayed_load(c), "SysCall")

op_break(c, op) ==
    LET c1 == delayed_load(c)
    IN  IF c1.debug_on_break
        THEN [c1 EXCEPT !.breaks = @ + 1]
        ELSE exception(c1, "Break")

op_mfhi(c, op) == set_reg(delayed_load(c), d(op), c.hi)

op_mthi(c, op) == delayed_load([c EXCEPT !.hi = reg(c, s(op))])

op_mflo(c, op) == set_reg(delayed_load(c), d(op), c.lo)

op_mtlo(c, op) == delayed_load([c EXCEPT !.lo = reg(c, s(op))])

op_mult(c, op) ==
    LET v == MulS64(reg(c, s(op)), reg(c, t(op)))
    IN  [delayed_load(c) EXCEPT !.hi = v.hi, !.lo = v.lo]

op_multu(c, op) ==
    LET v == MulU64(reg(c, s(op)), reg(c, t(op)))
    IN  [delayed_load(c) EXCEPT !.hi = v.hi, !.lo = v.lo]

\* op_div without its two special cases: the i32 division of Rust panics
\* on a zero divisor and on 0x80000000 / -1
op_div_unguarded(c, op) ==
    LET n  == reg(c, s(op))
        dv == reg(c, t(op))
        c1 == delayed_load(c)
    IN  IF dv = Zero \/ (n = W(32768, 0) /\ dv = W(65535, 65535))
        THEN panic(c1)
        ELSE [c1 EXCEPT !.hi = DivS32(n, dv).r, !.lo = DivS32(n, dv).q]

op_div(c, op) ==
    LET n  == reg(c, s(op))
        dv == reg(c, t(op))
        c1 == delayed_load(c)
    IN  IF dv = Zero
        THEN [c1 EXCEPT !.hi = n,
                        !.lo = IF ~IsNeg(n) THEN W(65535, 65535) ELSE U(1)]
        ELSE IF n = W(32768, 0) /\ dv = W(65535, 65535)
        THEN [c1 EXCEPT !.hi = Zero, !.lo = W(32768, 0)]
        ELSE [c1 EXCEPT !.hi = DivS32(n, dv).r, !.lo = DivS32(n, dv).q]

op_divu(c, op) ==
    LET n  == reg(c, s(op))
        dv == reg(c, t(op))
        c1 == delayed_load(c)
    IN  IF dv = Zero
        THEN [c1 EXCEPT !.hi = n, !.lo = W(65535, 65535)]
        ELSE [c1 EXCEPT !.hi = DivU32(n, dv).r, !.lo = DivU32(n, dv).q]

\* op_add with a wrapping sum in place of the checked one
op_add_wrapping(c, op) ==
    LET v == wrapping_add(reg(c, s(op)), reg(c, t(op)))
    IN  set_reg(delayed_load(c), d(op), v)

op_add(c, op) ==
    LET r  == checked_add(reg(c, s(op)), reg(c, t(op)))
        c1 == delayed_load(c)
    IN  IF r.some THEN set_reg(c1, d(op), r.v) ELSE exception(c1, "Overflow")

\* op_addu with its two calls exchanged: the pending load is committed
\* after the sum is written
op_addu_commits_load_last(c, op) ==
    LET v == wrapping_add(reg(c, s(op)), reg(c, t(op)))
    IN  delayed_load(set_reg(c, d(op), v))

op_addu(c, op) ==
    LET v == wrapping_add(reg(c, s(op)), reg(c, t(op)))
    IN  set_reg(delayed_load(c), d(op), v)

op_sub(c, op) ==
    LET r  == checked_sub(reg(c, s(op)), reg(c, t(op)))
        c1 == delayed_load(c)
    IN  IF r.some THEN set_reg(c1, d(op), r.v) ELSE exception(c1, "Overflow")

op_subu(c, op) ==
    LET v == wrapping_sub(reg(c, s(op)), reg(c, t(op)))
    IN  set_reg(delayed_load(c), d(op), v)

op_and(c, op) ==
    LET v == And32(reg(c, s(op)), reg(c, t(op)))
    IN  set_reg(delayed_load(c), d(op), v)

op_or(c, op) ==
    LET v == Or32(reg(c, s(op)), reg(c, t(op)))
    IN  set_reg(delayed_load(c), d(op), v)

op_xor(c, op) ==
    LET v == Xor32(reg(c, s(op)), reg(c, t(op)))
    IN  set_reg(delayed_load(c), d(op), v)

op_nor(c, op) ==
    LET v == Not32(Or32(reg(c, s(op)), reg(c, t(op))))
    IN  set_reg(delayed_load(c), d(op), v)

op_slt(c, op) ==
    LET v == Bool32(Lts(reg(c, s(op)), reg(c, t(op))))
    IN  set_reg(delayed_load(c), d(op), v)

op_sltu(c, op) ==
    LET v == Bool32(Ltu(reg(c, s(op)), reg(c, t(op))))
    IN  set_reg(delayed_load(c), d(op), v)

\* op_j with the region bits of the jump instruction's own address
op_j_from_current_pc(c, op) ==
    LET c1 == [c EXCEPT !.next_pc = Or32(And32(c.current_pc, W(61440, 0)),
                                         Shl32(imm_jump(op), 2)),
                        !.branch  = TRUE]
    IN  delayed_load(c1)

op_j(c, op) ==
    LET c1 == [c EXCEPT !.next_pc = Or32(And32(c.pc, W(61440, 0)),
                                         Shl32(imm_jump(op), 2)),
                        !.branch  = TRUE]
    IN  delayed_load(c1)

op_jal(c, op) ==
    LET ra == c.next_pc
    IN  [set_reg(op_j(c, op), 31, ra) EXCEPT !.branch = TRUE]

op_beq(c, op) ==
    delayed_load(IF reg(c, s(op)) = reg(c, t(op))
                 THEN cpu_branch(c, imm_se(op)) ELSE c)

op_bne(c, op) ==
    delayed_load(IF reg(c, s(op)) # reg(c, t(op))
                 THEN cpu_branch(c, imm_se(op)) ELSE c)

op_blez(c, op) ==
    LET v == reg(c, s(op))
    IN  delayed_load(IF IsNeg(v) \/ v = Zero
                     THEN cpu_branch(c, imm_se(op)) ELSE c)

op_bgtz(c, op) ==
    LET v == reg(c, s(op))
    IN  delayed_load(IF ~IsNeg(v) /\ v # Zero
                     THEN cpu_branch(c, imm_se(op)) ELSE c)

op_addi(c, op) ==
    LET r  == checked_add(reg(c, s(op)), imm_se(op))
        c1 == delayed_load(c)
    IN  IF r.some THEN set_reg(c1, t(op), r.v) ELSE exception(c1, "Overflow")

op_addiu(c, op) ==
    LET v == wrapping_add(reg(c, s(op)), imm_se(op))
    IN  set_reg(delayed_load(c), t(op), v)

op_slti(c, op) ==
    LET v == Bool32(Lts(reg(c, s(op)), imm_se(op)))
    IN  set_reg(delayed_load(c), t(op), v)

op_sltiu(c, op) ==
    LET v == Bool32(Ltu(reg(c, s(op)), imm_se(op)))
    IN  set_reg(delayed_load(c), t(op), v)

op_andi(c, op) ==
    LET v == And32(reg(c, s(op)), imm(op))
    IN  set_reg(delayed_load(c), t(op), v)

op_ori(c, op) ==
    LET v == Or32(reg(c, s(op)), imm(op))
    IN  set_reg(delayed_load(c), t(op), v)

op_xori(c, op) ==
    LET v == Xor32(reg(c, s(op)), imm(op))
    IN  set_reg(delayed_load(c), t(op), v)

op_lui(c, op) ==
    LET v == Shl32(imm(op), 16)
    IN  set_reg(delayed_load(c), t(op), v)

op_mfc0(c, op, irq_state) ==
    LET cop_r == d(op)
        v     == CASE cop_r \in {6, 7, 8} -> Zero
                   [] cop_r = 12 -> c.cop0.sr
                   [] cop_r = 13 -> cop0_cause(c.cop0, irq_state)
                   [] cop_r = 14 -> c.cop0.epc
                   [] cop_r = 15 -> U(2)
                   [] OTHER      -> Zero
    IN  IF cop_r \in {6, 7, 8, 12, 13, 14, 15}
        THEN delayed_load_chain(c, t(op), v)
        ELSE panic(c)

\* an MTC0 that rejects every write to a breakpoint register
op_mtc0_rejects_breakpoint_writes(c, op) ==
    LET cop_r == d(op)
        v     == reg(c, t(op))
        c1    == delayed_load(c)
    IN  CASE cop_r \in {3, 5, 6, 7, 9, 11} -> panic(c1)
          [] cop_r = 12 -> [c1 EXCEPT !.cop0 = set_sr(@, v)]
          [] cop_r = 13 -> [c1 EXCEPT !.cop0 = set_cause(@, v)]
          [] OTHER      -> panic(c1)

op_mtc0(c, op) ==
    LET cop_r == d(op)
        v     == reg(c, t(op))
        c1    == delayed_load(c)
    IN  CASE cop_r \in {3, 5, 6, 7, 9, 11} -> IF v # Zero THEN panic(c1) ELSE c1
          [] cop_r = 12 -> [c1 EXCEPT !.cop0 = set_sr(@, v)]
          [] cop_r = 13 -> [c1 EXCEPT !.cop0 = set_cause(@, v)]
          [] OTHER      -> panic(c1)

\* an RFE that leaves the mode bits of SR alone
op_rfe_keeps_mode(c, op) ==
    LET c1 == delayed_load(c)
    IN  IF op[2] % 64 # 16 THEN panic(c1) ELSE c1

\* Cpu::op_rfe
op_rfe(c, op) ==
    LET c1 == delayed_load(c)
    IN  IF op[2] % 64 # 16
        THEN panic(c1)
        ELSE [c1 EXCEPT !.cop0 = return_from_exception(@)]

op_cop0(c, op, irq_state) ==
    CASE cop_opcode(op) = 0  -> op_mfc0(c, op, irq_state)
      [] cop_opcode(op) = 4  -> op_mtc0(c, op)
      [] cop_opcode(op) = 16 -> op_rfe(c, op)
      [] OTHER               -> panic(c)

op_cop1(c, op) == exception(delayed_load(c), "CoprocessorError")

op_mfc2(c, op) == delayed_load_chain(c, t(op), gte_data(c.gte, d(op)))

op_cfc2(c, op) == delayed_load_chain(c, t(op), gte_control(c.gte, d(op)))

op_mtc2(c, op) ==
    LET v == reg(c, t(op))
    IN  [delayed_load(c) EXCEPT !.gte = gte_set_data(@, d(op), v)]

op_ctc2(c, op) ==
    LET v == reg(c, t(op))
    IN  [delayed_load(c) EXCEPT !.gte = gte_set_control(@, d(op), v)]

op_cop2(c, op) ==
    IF cop_opcode(op) \div 16 = 1
    THEN [c EXCEPT !.gte = gte_command(@, op)]
    ELSE CASE cop_opcode(op) = 0 -> op_mfc2(c, op)
           [] cop_opcode(op) = 2 -> op_cfc2(c, op)
           [] cop_opcode(op) = 4 -> op_mtc2(c, op)
           [] cop_opcode(op) = 6 -> op_ctc2(c, op)
           [] OTHER              -> panic(c)

op_cop3(c, op) == exception(delayed_load(c), "CoprocessorError")

\* reg(s).wrapping_add(imm_se)
EffAddr(c, op) == wrapping_add(reg(c, s(op)), imm_se(op))

op_lb(c, op) ==
    LET addr == EffAddr(c, op)
        v    == SignExt8(cpu_load(c, 1, addr)[2])
    IN  delayed_load_chain(c, t(op), v)

op_lh(c, op) ==
    LET addr == EffAddr(c, op)
    IN  IF addr[2] % 2 = 0
        THEN delayed_load_chain(c, t(op), SignExt16(cpu_load(c, 2, addr)[2]))
        ELSE exception(delayed_load(c), "LoadAddressError")

\* an LWL that writes its result to the register at once
op_lwl_writes_register(c, op) ==
    LET addr         == EffAddr(c, op)
        cur_v        == IF c.load[1] = t(op) THEN c.load[2] ELSE reg(c, t(op))
        aligned_word == cpu_load(c, 4, AlignWord(addr))
        v == CASE addr[2] % 4 = 0 ->
                      Or32(And32(cur_v, W(255, 65535)), Shl32(aligned_word, 24))
               [] addr[2] % 4 = 1 ->
                      Or32(And32(cur_v, W(0, 65535)), Shl32(aligned_word, 16))
               [] addr[2] % 4 = 2 ->
                      Or32(And32(cur_v, W(0, 255)), Shl32(aligned_word, 8))
               [] addr[2] % 4 = 3 ->
                      Or32(And32(cur_v, Zero), Shl32(aligned_word, 0))
    IN  set_reg(delayed_load(c), t(op), v)

op_lwl(c, op) ==
    LET addr         == EffAddr(c, op)
        cur_v        == IF c.load[1] = t(op) THEN c.load[2] ELSE reg(c, t(op))
        aligned_word == cpu_load(c, 4, AlignWord(addr))
        v == CASE addr[2] % 4 = 0 ->
                      Or32(And32(cur_v, W(255, 65535)), Shl32(aligned_word, 24))
               [] addr[2] % 4 = 1 ->
                      Or32(And32(cur_v, W(0, 65535)), Shl32(aligned_word, 16))
               [] addr[2] % 4 = 2 ->
                      Or32(And32(cur_v, W(0, 255)), Shl32(aligned_word, 8))
               [] addr[2] % 4 = 3 ->
                      Or32(And32(cur_v, Zero), Shl32(aligned_word, 0))
    IN  delayed_load_chain(c, t(op), v)

op_lw(c, op) ==
    LET addr == EffAddr(c, op)
    IN  IF addr[2] % 4 = 0
        THEN delayed_load_chain(c, t(op), cpu_load(c, 4, addr))
        ELSE exception(delayed_load(c), "LoadAddressError")

op_lbu(c, op) ==
    LET addr == EffAddr(c, op)
    IN  delayed_load_chain(c, t(op), cpu_load(c, 1, addr))

op_lhu(c, op) ==
    LET addr == EffAddr(c, op)
    IN  IF addr[2] % 2 = 0
        THEN delayed_load_chain(c, t(op), cpu_load(c, 2, addr))
        ELSE exception(delayed_load(c), "LoadAddressError")

\* an LWR that merges with the register, not with the load under way
op_lwr_ignores_pending(c, op) ==
    LET addr         == EffAddr(c, op)
        cur_v        == reg(c, t(op))
        aligned_word == cpu_load(c, 4, AlignWord(addr))
        v == CASE addr[2] % 4 = 0 ->
                      Or32(And32(cur_v, Zero), Shr32(aligned_word, 0))
               [] addr[2] % 4 = 1 ->
                      Or32(And32(cur_v, W(65280, 0)), Shr32(aligned_word, 8))
               [] addr[2] % 4 = 2 ->
                      Or32(And32(cur_v, W(65535, 0)), Shr32(aligned_word, 16))
               [] addr[2] % 4 = 3 ->
                      Or32(And32(cur_v, W(65535, 65280)), Shr32(aligned_word, 24))
    IN  delayed_load_chain(c, t(op), v)

op_lwr(c, op) ==
    LET addr         == EffAddr(c, op)
        cur_v        == IF c.load[1] = t(op) THEN c.load[2] ELSE reg(c, t(op))
        aligned_word == cpu_load(c, 4, AlignWord(addr))
        v == CASE addr[2] % 4 = 0 ->
                      Or32(And32(cur_v, Zero), Shr32(aligned_word, 0))
               [] addr[2] % 4 = 1 ->
                      Or32(And32(cur_v, W(65280, 0)), Shr32(aligned_word, 8))
               [] addr[2] % 4 = 2 ->
                      Or32(And32(cur_v, W(65535, 0)), Shr32(aligned_word, 16))
               [] addr[2] % 4 = 3 ->
                      Or32(And32(cur_v, W(65535, 65280)), Shr32(aligned_word, 24))
    IN  delayed_load_chain(c, t(op), v)

op_sb(c, op) ==
    LET addr == EffAddr(c, op)
        v    == reg(c, t(op))
    IN  cpu_store(delayed_load(c), 1, addr, v)

op_sh(c, op) ==
    LET addr == EffAddr(c, op)
        v    == reg(c, t(op))
        c1   == delayed_load(c)
    IN  IF addr[2] % 2 = 0
        THEN cpu_store(c1, 2, addr, v)
        ELSE exception(c1, "StoreAddressError")

op_swl(c, op) ==
    LET addr    == EffAddr(c, op)
        v       == reg(c, t(op))
        cur_mem == cpu_load(c, 4, AlignWord(addr))
        m == CASE addr[2] % 4 = 0 ->
                      Or32(And32(cur_mem, W(65535, 65280)), Shr32(v, 24))
               [] addr[2] % 4 = 1 ->
                      Or32(And32(cur_mem, W(65535, 0)), Shr32(v, 16))
               [] addr[2] % 4 = 2 ->
                      Or32(And32(cur_mem, W(65280, 0)), Shr32(v, 8))
               [] addr[2] % 4 = 3 ->
                      Or32(And32(cur_mem, Zero), Shr32(v, 0))
    IN  cpu_store(delayed_load(c), 4, AlignWord(addr), m)

op_sw(c, op) ==
    LET addr == EffAddr(c, op)
        v    == reg(c, t(op))
        c1   == delayed_load(c)
    IN  IF addr[2] % 4 = 0
        THEN cpu_store(c1, 4, addr, v)
        ELSE exception(c1, "StoreAddressError")

op_swr(c, op) ==
    LET addr    == EffAddr(c, op)
        v       == reg(c, t(op))
        cur_mem == cpu_load(c, 4, AlignWord(addr))
        m == CASE addr[2] % 4 = 0 ->
                      Or32(And32(cur_mem, Zero), Shl32(v, 0))
               [] addr[2] % 4 = 1 ->
                      Or32(And32(cur_mem, W(0, 255)), Shl32(v, 8))
               [] addr[2] % 4 = 2 ->
                      Or32(And32(cur_mem, W(0, 65535)), Shl32(v, 16))
               [] addr[2] % 4 = 3 ->
                      Or32(And32(cur_mem, W(255, 65535)), Shl32(v, 24))
    IN  cpu_store(delayed_load(c), 4, AlignWord(addr), m)

op_lwc0(c, op) == exception(delayed_load(c), "CoprocessorError")

op_lwc1(c, op) == exception(delayed_load(c), "CoprocessorError")

op_lwc2(c, op) ==
    LET addr == EffAddr(c, op)
        c1   == delayed_load(c)
    IN  IF addr[2] % 4 = 0
        THEN [c1 EXCEPT !.gte = gte_set_data(@, t(op), cpu_load(c1, 4, addr))]
        ELSE exception(c1, "LoadAddressError")

op_lwc3(c, op) == exception(delayed_load(c), "CoprocessorError")

op_swc0(c, op) == exception(delayed_load(c), "CoprocessorError")

op_swc1(c, op) == exception(delayed_load(c), "CoprocessorError")

op_swc2(c, op) ==
    LET addr == EffAddr(c, op)
        v    == gte_data(c.gte, t(op))
        c1   == delayed_load(c)
    IN  IF addr[2] % 4 = 0
        THEN cpu_store(c1, 4, addr, v)
        ELSE exception(c1, "LoadAddressError")

op_swc3(c, op) == exception(delayed_load(c), "CoprocessorError")

\* Cpu::decode_and_execute
decode_and_execute(c0, op, irq_state) ==
    LET c  == [c0 EXCEPT !.tk = tick(@, 1), !.executed = TRUE]
        f  == function(op)
        sf == subfunction(op)
    IN  CASE f = 0 ->
               (CASE sf = 0  -> op_sll(c, op)
                  [] sf = 2  -> op_srl(c, op)
                  [] sf = 3  -> op_sra(c, op)
                  [] sf = 4  -> op_sllv(c, op)
                  [] sf = 6  -> op_srlv(c, op)
                  [] sf = 7  -> op_srav(c, op)
                  [] sf = 8  -> op_jr(c, op)
                  [] sf = 9  -> op_jalr(c, op)
                  [] sf = 12 -> op_syscall(c, op)
                  [] sf = 13 -> op_break(c, op)
                  [] sf = 16 -> op_mfhi(c, op)
                  [] sf = 17 -> op_mthi(c, op)
                  [] sf = 18 -> op_mflo(c, op)
                  [] sf = 19 -> op_mtlo(c, op)
                  [] sf = 24 -> op_mult(c, op)
                  [] sf = 25 -> op_multu(c, op)
                  [] sf = 26 -> op_div(c, op)
                  [] sf = 27 -> op_divu(c, op)
                  [] sf = 32 -> op_add(c, op)
                  [] sf = 33 -> op_addu(c, op)
                  [] sf = 34 -> op_sub(c, op)
                  [] sf = 35 -> op_subu(c, op)
                  [] sf = 36 -> op_and(c, op)
                  [] sf = 37 -> op_or(c, op)
                  [] sf = 38 -> op_xor(c, op)
                  [] sf = 39 -> op_nor(c, op)
                  [] sf = 42 -> op_slt(c, op)
                  [] sf = 43 -> op_sltu(c, op)
                  [] OTHER   -> op_illegal(c, op))
          [] f = 1  -> op_bxx(c, op)
          [] f = 2  -> op_j(c, op)
          [] f = 3  -> op_jal(c, op)
          [] f = 4  -> op_beq(c, op)
          [] f = 5  -> op_bne(c, op)
          [] f = 6  -> op_blez(c, op)
          [] f = 7  -> op_bgtz(c, op)
          [] f = 8  -> op_addi(c, op)
          [] f = 9  -> op_addiu(c, op)
          [] f = 10 -> op_slti(c, op)
          [] f = 11 -> op_sltiu(c, op)
          [] f = 12 -> op_andi(c, op)
          [] f = 13 -> op_ori(c, op)
          [] f = 14 -> op_xori(c, op)
          [] f = 15 -> op_lui(c, op)
          [] f = 16 -> op_cop0(c, op, irq_state)
          [] f = 17 -> op_cop1(c, op)
          [] f = 18 -> op_cop2(c, op)
          [] f = 19 -> op_cop3(c, op)
          [] f = 32 -> op_lb(c, op)
          [] f = 33 -> op_lh(c, op)
          [] f = 34 -> op_lwl(c, op)
          [] f = 35 -> op_lw(c, op)
          [] f = 36 -> op_lbu(c, op)
          [] f = 37 -> op_lhu(c, op)
          [] f = 38 -> op_lwr(c, op)
          [] f = 40 -> op_sb(c, op)
          [] f = 41 -> op_sh(c, op)
          [] f = 42 -> op_swl(c, op)
          [] f = 43 -> op_sw(c, op)
          [] f = 46 -> op_swr(c, op)
          [] f = 48 -> op_lwc0(c, op)
          [] f = 49 -> op_lwc1(c, op)
          [] f = 50 -> op_lwc2(c, op)
          [] f = 51 -> op_lwc3(c, op)
          [] f = 56 -> op_swc0(c, op)
          [] f = 57 -> op_swc1(c, op)
          [] f = 58 -> op_swc2(c, op)
          [] f = 59 -> op_swc3(c, op)
          [] OTHER  -> op_illegal(c, op)

\* shared.tk().sync_pending()
sync_pending(k) == k.now >= k.next_sync

\* a head of the step that never synchronises the peripherals
step_begin_without_sync(c) == [c EXCEPT !.current_pc = c.pc]

\* the head of run_next_instruction: the peripherals' synchronisation and
\* the snapshot of the PC
step_begin(c) ==
    LET c1 == IF sync_pending(c.tk)
              THEN [c EXCEPT !.tk = [@ EXCEPT !.next_sync = c.tk.now + SyncPeriod,
                                              !.syncs     = @ + 1]]
              ELSE c
    IN  [c1 EXCEPT !.current_pc = c1.pc]

\* Cpu::run_next_instruction, with the interrupt lines as the step finds them
run_next_instruction(c0, irq_state) ==
    LET c1 == step_begin(c0)
    IN  IF c1.current_pc[2] % 4 # 0
        THEN [exception(c1, "LoadAddressError") EXCEPT !.path = "misaligned"]
        ELSE LET f  == fetch_instruction(c1)
                 op == f.instruction
                 c2 == [f.c EXCEPT !.pc         = f.c.next_pc,
                                   !.next_pc    = wrapping_add(f.c.next_pc, U(4)),
                                   !.delay_slot = f.c.branch,
                                   !.branch     = FALSE,
                                   !.op         = op]
             IN  IF irq_active(c2.cop0, irq_state)
                 THEN LET c3 == IF is_gte_op(op)
                                THEN decode_and_execute(c2, op, irq_state)
                                ELSE c2
                          c4 == [c3 EXCEPT !.tk = tick(@, 1), !.path = "interrupt"]
                      IN  exception(c4, "Interrupt")
                 ELSE [decode_and_execute(c2, op, irq_state)
                          EXCEPT !.path = "execute"]

\* Cpu::set_pc
set_pc(c, p) == [c EXCEPT !.pc = p, !.next_pc = wrapping_add(p, U(4))]

\* Cpu::force_pc
force_pc(c, p) ==
    [c EXCEPT !.pc = p, !.next_pc = wrapping_add(p, U(4)), !.delay_slot = FALSE]

\* Cpu::set_debug_on_break
set_debug_on_break(c, enabled) == [c EXCEPT !.debug_on_break = enabled]

(***************************************************************************)
(* Instruction words and data the runs draw from                           *)
(***************************************************************************)
\* 00000000: sll r0, r0, 0
NOP == W(0, 0)

\* 8c220000: lw r2, 0(r1)
LW_r2_0_r1 == W(35874, 0)

\* 8c230000: lw r3, 0(r1)
LW_r3_0_r1 == W(35875, 0)

\* 8c430000: lw r3, 0(r2)
LW_r3_0_r2 == W(35907, 0)

\* 8c200000: lw r0, 0(r1)
LW_r0_0_r1 == W(35872, 0)

\* 24430000: addiu r3, r2, 0
ADDIU_r3_r2_0 == W(9283, 0)

\* 24440000: addiu r4, r2, 0
ADDIU_r4_r2_0 == W(9284, 0)

\* 24011234: addiu r1, r0, 0x1234
ADDIU_r1_r0_1234 == W(9217, 4660)

\* 24015678: addiu r1, r0, 0x5678
ADDIU_r1_r0_5678 == W(9217, 22136)

\* 00210021: addu r0, r1, r1
ADDU_r0_r1_r1 == W(33, 33)

\* 00200009: jalr r0, r1
JALR_r0_r1 == W(32, 9)

\* 00200008: jr r1
JR_r1 == W(32, 8)

\* 10000001: beq r0, r0, +1
BEQ_r0_r0_1 == W(4096, 1)

\* 0000000c: syscall
SYSCALL == W(0, 12)

\* 7badb105: the word of the dummy BIOS: no instruction
ILLEGAL == W(31661, 45317)

\* 44000000: a COP1 instruction
COP1 == W(17408, 0)

\* 4a000000: a COP2 (GTE) command
GTE_CMD == W(18944, 0)

\* 48810000: mtc2 r1, gte data 0
MTC2_r1_0 == W(18561, 0)

\* 00221820: add r3, r1, r2
ADD_r3_r1_r2 == W(34, 6176)

\* 00221821: addu r3, r1, r2
ADDU_r3_r1_r2 == W(34, 6177)

\* 00221822: sub r3, r1, r2
SUB_r3_r1_r2 == W(34, 6178)

\* 00221823: subu r3, r1, r2
SUBU_r3_r1_r2 == W(34, 6179)

\* 20230001: addi r3, r1, 1
ADDI_r3_r1_1 == W(8227, 1)

\* 2023ffff: addi r3, r1, -1
ADDI_r3_r1_m1 == W(8227, 65535)

\* 24230001: addiu r3, r1, 1
ADDIU_r3_r1_1 == W(9251, 1)

\* 2423ffff: addiu r3, r1, -1
ADDIU_r3_r1_m1 == W(9251, 65535)

\* 0022001a: div r1, r2
DIV_r1_r2 == W(34, 26)

\* 0022001b: divu r1, r2
DIVU_r1_r2 == W(34, 27)

\* 8ca30000: lw r3, 0(r5)
LW_r3_0_r5 == W(36003, 0)

\* lw r3, 0(r4)
LW_r3_0_r4 == W(35971, 0)

\* sw r3, 0(r4)
SW_r3_0_r4 == W(44163, 0)

\* break
BREAK == W(0, 13)

\* rfe
RFE == W(16896, 16)

\* sw r0, 0(r1)
SW_r0_0_r1 == W(44064, 0)

\* mtc0 r0, SR
MTC0_r0_SR == W(16512, 24576)

\* lwl r2, k(r1)
LWL_r2_r1(k) == W(34850, k)

\* lwr r2, k(r1)
LWR_r2_r1(k) == W(38946, k)

\* 8cbf0000: lw r31, 0(r5)
LW_r31_0_r5 == W(36031, 0)

\* 00021840: sll r3, r2, 1
SLL_r3_r2_1 == W(2, 6208)

\* 3c031234: lui r3, 0x1234
LUI_r3_1234 == W(15363, 4660)

\* 00001812: mflo r3
MFLO_r3 == W(0, 6162)

\* 0041182a: slt r3, r2, r1
SLT_r3_r2_r1 == W(65, 6186)

\* 00201809: jalr r3, r1
JALR_r3_r1 == W(32, 6153)

\* 00800008: jr r4
JR_r4 == W(128, 8)

\* 08000404: j 0x1010 (in the region of the PC)
J_1010 == W(2048, 1028)

\* 0c000404: jal 0x1010
JAL_1010 == W(3072, 1028)

\* 1420fffe: bne r1, r0, -2
BNE_r1_r0_m2 == W(5152, 65534)

\* 14000004: bne r0, r0, +4
BNE_r0_r0_4 == W(5120, 4)

\* 18400003: blez r2, +3
BLEZ_r2_3 == W(6208, 3)

\* 1c400003: bgtz r2, +3
BGTZ_r2_3 == W(7232, 3)

\* 04400002: bltz r2, +2
BLTZ_r2_2 == W(1088, 2)

\* 04410002: bgez r2, +2
BGEZ_r2_2 == W(1089, 2)

\* 04500002: bltzal r2, +2
BLTZAL_r2_2 == W(1104, 2)

\* 04510002: bgezal r2, +2
BGEZAL_r2_2 == W(1105, 2)

\* 07f00002: bltzal r31, +2
BLTZAL_r31_2 == W(2032, 2)

\* 04520002: primary opcode 1 with bits [20:16] = 10010: bit 20 is set but
\* bits [19:17] are not clear
BXX_r2_10010_2 == W(1106, 2)

\* the calls of one run of branches, jumps and register writes
MaxJumpSteps == 3

\* the calls of one run across the address segments
MaxAliasSteps == 4

\* a0200000: sb r0, 0(r1)
SB_r0_0_r1 == W(40992, 0)

\* a4200000: sh r0, 0(r1)
SH_r0_0_r1 == W(42016, 0)

\* a8200000: swl r0, 0(r1)
SWL_r0_0_r1 == W(43040, 0)

\* ac230000: sw r3, 0(r1)
SW_r3_0_r1 == W(44067, 0)

\* b8200000: swr r0, 0(r1)
SWR_r0_0_r1 == W(47136, 0)

\* e8200000: swc2 0, 0(r1)
SWC2_0_0_r1 == W(59424, 0)

\* the calls of one run of stores with the cache isolated or not
MaxIsolateSteps == 4

\* the calls of one run of coprocessor instructions and stores
MaxFatalSteps == 3

\* the calls of one run of instructions that raise exceptions
MaxFaultSteps == 3

\* the calls of one run from the cache of Cpu::new
MaxFreshSteps == 5

\* the calls of one run
MaxSteps == 3

\* the steps of one run with run_until_next_frame, and its calls
MaxFrameSteps == 4

MaxFrameCalls == 2

\* the calls of one run on a Bios
MaxBiosCalls == 4

\* the calls of one run of the instruction cache
MaxCacheSteps == 5

\* the calls of one run of arithmetic instructions
MaxArithSteps == 2

(***************************************************************************)
(* Bios (src/src/bios/mod.rs). A Bios is [data, metadata]: data maps the   *)
(* offsets 0..BIOS_SIZE - 1 to bytes, metadata is a record of the          *)
(* database. The database module is not among the sources: it is a set of *)
(* Metadata records found by their SHA-256.                                *)
(***************************************************************************)
\* the bytes of the image (512 * 1024 in the source)
BIOS_SIZE == 16

NoHook == [some |-> FALSE, v |-> 0]

Hook(h) == [some |-> TRUE, v |-> h]

\* a digest whose 32 bytes are k
Digest(k) == [i \in 1..32 |-> k]

DUMMY_METADATA ==
    [sha256 |-> Digest(255), version_major |-> 0, version_minor |-> 0,
     region |-> "NorthAmerica", known_bad |-> TRUE,
     animation_jump_hook |-> NoHook]

\* db::DATABASE: an image whose animation jump is known, at offset 4, and
\* one whose animation jump is not known
Database ==
    {[sha256 |-> Digest(1), version_major |-> 2, version_minor |-> 2,
      region |-> "Europe", known_bad |-> FALSE,
      animation_jump_hook |-> Hook(4)],
     [sha256 |-> Digest(2), version_major |-> 1, version_minor |-> 0,
      region |-> "Japan", known_bad |-> FALSE,
      animation_jump_hook |-> NoHook]}

\* db::lookup_sha256: [some, v]
lookup_sha256(sha256) ==
    IF \E m \in Database : m.sha256 = sha256
    THEN [some |-> TRUE, v |-> CHOOSE m \in Database : m.sha256 = sha256]
    ELSE [some |-> FALSE, v |-> DUMMY_METADATA]

\* a dummy image that holds the bytes of 7badb105
Bios_dummy_whole_bytes ==
    [data     |-> [i \in 0..(BIOS_SIZE - 1) |->
                      Shr32(W(31661, 45317), (i % 4) * 8)[2] % 256],
     metadata |-> DUMMY_METADATA]

\* Bios::dummy
Bios_dummy ==
    [data     |-> [i \in 0..(BIOS_SIZE - 1) |->
                      Shr32(W(31661, 45317), (i % 4) * 2)[2] % 256],
     metadata |-> DUMMY_METADATA]

\* a patch that stores the instruction with its high byte first
patch_animation_jump_hook_big_endian(b, instr) ==
    IF b.metadata.animation_jump_hook.some
    THEN LET h == b.metadata.animation_jump_hook.v
         IN  [bios |-> [b EXCEPT !.data[h]     = Shr32(instr, 24)[2] % 256,
                                 !.data[h + 1] = Shr32(instr, 16)[2] % 256,
                                 !.data[h + 2] = Shr32(instr, 8)[2] % 256,
                                 !.data[h + 3] = instr[2] % 256],
              ok   |-> TRUE]
    ELSE [bios |-> b, ok |-> FALSE]

\* Bios::patch_animation_jump_hook: the Bios after the call, and Ok or Err
patch_animation_jump_hook(b, instr) ==
    IF b.metadata.animation_jump_hook.some
    THEN LET h == b.metadata.animation_jump_hook.v
         IN  [bios |-> [b EXCEPT !.data[h]     = instr[2] % 256,
                                 !.data[h + 1] = Shr32(instr, 8)[2] % 256,
                                 !.data[h + 2] = Shr32(instr, 16)[2] % 256,
                                 !.data[h + 3] = Shr32(instr, 24)[2] % 256],
              ok   |-> TRUE]
    ELSE [bios |-> b, ok |-> FALSE]

\* Bios::patch_boot_animation
patch_boot_animation(b) == patch_animation_jump_hook(b, Zero)

\* Bios::load::<T>, T::size() = width
RECURSIVE bios_load_from(_, _, _, _)
bios_load_from(b, width, offset, i) ==
    IF i >= width THEN Zero
    ELSE Or32(Shl32(U(b.data[offset + i]), 8 * i),
              bios_load_from(b, width, offset, i + 1))

bios_load(b, width, offset) == bios_load_from(b, width, offset, 0)

\* Serialize for Bios: the elements given to the serializer
serialize(b) == [i \in 1..32 |-> b.metadata.sha256[i]]

\* a deserialization that forgets the metadata it found
deserialize_keeps_dummy_metadata(input) ==
    IF Len(input) < 32
    THEN [ok |-> FALSE, message |-> "invalid length", bios |-> Bios_dummy]
    ELSE LET meta == lookup_sha256(SubSeq(input, 1, 32))
         IN  IF meta.some
             THEN [ok |-> TRUE, message |-> "", bios |-> Bios_dummy]
             ELSE [ok |-> FALSE, message |-> "unknown BIOS checksum",
                   bios |-> Bios_dummy]

\* Deserialize for Bios, from the elements of the sequence: Ok with the
\* Bios, or Err with the message
deserialize(input) ==
    IF Len(input) < 32
    THEN [ok |-> FALSE, message |-> "invalid length", bios |-> Bios_dummy]
    ELSE LET meta == lookup_sha256(SubSeq(input, 1, 32))
         IN  IF meta.some
             THEN [ok |-> TRUE, message |-> "",
                   bios |-> [Bios_dummy EXCEPT !.metadata = meta.v]]
             ELSE [ok |-> FALSE, message |-> "unknown BIOS checksum",
                   bios |-> Bios_dummy]

\* the words of memory where the interconnect shows the image, from
\* bfc00000 on
BiosMapped(b) ==
    [a \in {W(49088, 4 * k) : k \in 0..((BIOS_SIZE \div 4) - 1)} |->
        bios_load(b, 4, a[2])]

\* no call on the Bios yet
NoBiosCall ==
    [n |-> 0, call |-> "none", input |-> <<>>, instr |-> Zero, offset |-> 0,
     ok |-> TRUE, message |-> "", output |-> <<>>, value |-> Zero]

(***************************************************************************)
(* run_until_next_frame: [running, frame, first, last]: whether the call   *)
(* is in its loop, the frame counter read at entry, and the numbers of the *)
(* calls of `trace` before its first step and up to its return             *)
(***************************************************************************)
NotCalled == [running |-> FALSE, calls |-> 0, frame |-> 0, first |-> 0, last |-> 0]

\* a loop that is never entered
loop_test_fails(entry_frame, f) == FALSE

\* while frame == shared.counters().frame.get()
loop_test(entry_frame, f) == entry_frame = f

(***************************************************************************)
(* The state as a Cpu record, and back                                     *)
(***************************************************************************)
NoEffects ==
    [panicked |-> FALSE, exc |-> <<>>, iloads |-> <<>>, stores |-> <<>>,
     breaks |-> 0, path |-> "none", op |-> Zero, executed |-> FALSE]

Cpu ==
    [pc |-> pc, next_pc |-> next_pc, current_pc |-> current_pc, regs |-> regs,
     hi |-> hi, lo |-> lo, icache |-> icache, load |-> load, branch |-> branch,
     delay_slot |-> delay_slot, debug_on_break |-> debug_on_break,
     cop0 |-> cop0, gte |-> gte, mem |-> mem, cc |-> cache_control, tk |-> tk]
    @@ NoEffects

\* Cpu::new, with an interconnect whose cache control register is clear
Cpu_new ==
    [pc |-> W(49088, 0), next_pc |-> wrapping_add(W(49088, 0), U(4)),
     current_pc |-> Zero,
     regs |-> [i \in 0..31 |-> IF i = 0 THEN Zero ELSE W(57005, 48879)],
     hi |-> W(57005, 48879), lo |-> W(57005, 48879),
     icache |-> <<>>, load |-> <<0, Zero>>, branch |-> FALSE,
     delay_slot |-> FALSE, debug_on_break |-> FALSE,
     cop0 |-> Cop0_new, gte |-> Gte_new, mem |-> <<>>,
     cc |-> [icache_enabled |-> FALSE, tag_test_mode |-> FALSE],
     tk |-> [now |-> 0, next_sync |-> SyncPeriod, syncs |-> 0]]
    @@ NoEffects

StartsAs(c) ==
    /\ pc = c.pc /\ next_pc = c.next_pc /\ current_pc = c.current_pc
    /\ regs = c.regs /\ hi = c.hi /\ lo = c.lo /\ icache = c.icache
    /\ load = c.load /\ branch = c.branch /\ delay_slot = c.delay_slot
    /\ debug_on_break = c.debug_on_break /\ cop0 = c.cop0 /\ gte = c.gte
    /\ mem = c.mem /\ cache_control = c.cc /\ tk = c.tk
    /\ fatal = FALSE
    /\ pre = c
    /\ trace = <<>>
    /\ frame = 0
    /\ rnf = NotCalled
    /\ bios = Bios_dummy
    /\ bios_pre = Bios_dummy
    /\ ret = NoBiosCall

Entry(call, c, irq_state) ==
    [call |-> call, path |-> c.path, op |-> c.op, cpc |-> c.current_pc,
     irq |-> irq_state, executed |-> c.executed, exc |-> c.exc,
     iloads |-> c.iloads, stores |-> c.stores, breaks |-> c.breaks,
     panicked |-> c.panicked, regs |-> c.regs, load |-> c.load,
     pc |-> c.pc, next_pc |-> c.next_pc, sr_before |-> cop0.sr,
     sr |-> c.cop0.sr, regs_before |-> regs, cc_before |-> cache_control,
     now |-> c.tk.now, frame_before |-> frame]

\* the call returned with the CPU as c, the frame counter advanced by a
\* number of FS; a call that panicked ends the process
ReturnsWithFrames(call, c, irq_state, FS) ==
    /\ \E df \in FS : frame' = IF c.panicked THEN frame ELSE frame + df
    /\ UNCHANGED <<rnf, bios, bios_pre, ret>>
    /\ pre' = Cpu
    /\ trace' = Append(trace, Entry(call, c, irq_state))
    /\ fatal' = c.panicked
    /\ IF c.panicked
       THEN UNCHANGED <<pc, next_pc, current_pc, regs, hi, lo, icache, load,
                        branch, delay_slot, debug_on_break, cop0, gte, mem,
                        cache_control, tk>>
       ELSE /\ pc' = c.pc /\ next_pc' = c.next_pc /\ current_pc' = c.current_pc
            /\ regs' = c.regs /\ hi' = c.hi /\ lo' = c.lo /\ icache' = c.icache
            /\ load' = c.load /\ branch' = c.branch
            /\ delay_slot' = c.delay_slot
            /\ debug_on_break' = c.debug_on_break
            /\ cop0' = c.cop0 /\ gte' = c.gte /\ mem' = c.mem
            /\ cache_control' = c.cc /\ tk' = c.tk

Returns(call, c, irq_state) == ReturnsWithFrames(call, c, irq_state, {0})

\* the words of memory the instruction's execution reads or writes
DataAddrs(c, op, irq_state) ==
    IF /\ ~irq_active(c.cop0, irq_state) \/ is_gte_op(op)
       /\ function(op) \in {32, 33, 34, 35, 36, 37, 38, 40, 41, 42, 43, 46, 50, 58}
    THEN {AlignWord(EffAddr(c, op))}
    ELSE {}

\* memory m with the words at `addrs` it does not hold yet drawn from `words`
Extensions(m, addrs, words) ==
    {f @@ m : f \in [addrs \ DOMAIN m -> words]}

(***************************************************************************)
(* The calls                                                               *)
(***************************************************************************)
\* one call of run_next_instruction, with the interrupt lines drawn from
\* IRQS; memory read for the first time holds an instruction word of IS (a
\* fetch) or a word of DS (a load or store)
RunNextInstructionWithin(bound, IS, DS, IRQS, FS) ==
    /\ ~fatal
    /\ Len(trace) < bound
    /\ \E irq_state \in IRQS :
       LET b == step_begin(Cpu)
       IN  IF b.current_pc[2] % 4 # 0
           THEN ReturnsWithFrames("run_next_instruction",
                                  run_next_instruction(Cpu, irq_state),
                                  irq_state, FS)
           ELSE \E m1 \in Extensions(mem, FetchAddrs(b), IS) :
                LET c1 == [Cpu EXCEPT !.mem = m1]
                    op == fetch_instruction(step_begin(c1)).instruction
                IN  \E m2 \in Extensions(m1, DataAddrs(c1, op, irq_state), DS) :
                    ReturnsWithFrames(
                        "run_next_instruction",
                        run_next_instruction([c1 EXCEPT !.mem = m2], irq_state),
                        irq_state, FS)

RunNextInstruction(IS, DS, IRQS) ==
    RunNextInstructionWithin(MaxSteps, IS, DS, IRQS, {0})

ForcePc(PS) ==
    /\ ~fatal
    /\ Len(trace) < MaxSteps
    /\ \E p \in PS : Returns("force_pc", force_pc(Cpu, p), FALSE)

SetPcWithin(bound, PS) ==
    /\ ~fatal
    /\ Len(trace) < bound
    /\ \E p \in PS : Returns("set_pc", set_pc(Cpu, p), FALSE)

SetPc(PS) == SetPcWithin(MaxSteps, PS)

\* the cache control register of the interconnect is written (by the guest
\* through the bus, or by the host through interconnect_mut())
SetCacheControl(bound) ==
    /\ ~fatal
    /\ Len(trace) < bound
    /\ \E enabled \in BOOLEAN, tag_test \in BOOLEAN :
           Returns("set_cache_control",
                   [Cpu EXCEPT !.cc = [icache_enabled |-> enabled,
                                       tag_test_mode  |-> tag_test]],
                   FALSE)

SetDebugOnBreak ==
    /\ ~fatal
    /\ Len(trace) < MaxSteps
    /\ \E enabled \in BOOLEAN :
           Returns("set_debug_on_break", set_debug_on_break(Cpu, enabled), FALSE)

\* run_until_next_frame is called: it reads the frame counter
RunUntilNextFrameCall ==
    /\ ~fatal
    /\ ~rnf.running
    /\ rnf.calls < MaxFrameCalls
    /\ rnf' = [running |-> TRUE, calls |-> rnf.calls + 1, frame |-> frame,
               first |-> Len(trace), last |-> Len(trace)]
    /\ UNCHANGED <<pc, next_pc, current_pc, regs, hi, lo, icache, load, branch,
                    delay_slot, debug_on_break, cop0, gte, mem, cache_control,
                    tk, fatal, pre, trace, frame, bios, bios_pre, ret>>

\* a step, during which the counter advances by a number of FS: one turn of
\* the loop of the call under way, which found the counter as at entry, or
\* with no call under way a step run by the host itself
RunUntilNextFrameStep(IS, DS, IRQS, FS) ==
    /\ rnf.running => loop_test(rnf.frame, frame)
    /\ RunNextInstructionWithin(MaxFrameSteps, IS, DS, IRQS, FS)

\* the counter is not as at entry: the loop ends and the call returns
RunUntilNextFrameReturn ==
    /\ ~fatal
    /\ rnf.running
    /\ ~loop_test(rnf.frame, frame)
    /\ rnf' = [rnf EXCEPT !.running = FALSE, !.last = Len(trace)]
    /\ UNCHANGED <<pc, next_pc, current_pc, regs, hi, lo, icache, load, branch,
                    delay_slot, debug_on_break, cop0, gte, mem, cache_control,
                    tk, fatal, pre, trace, frame, bios, bios_pre, ret>>

\* a call on the Bios returned r and left the Bios as b
BiosReturns(r, b) ==
    /\ ret.n < MaxBiosCalls
    /\ ret' = [r EXCEPT !.n = ret.n + 1]
    /\ bios_pre' = bios
    /\ bios' = b
    /\ UNCHANGED <<pc, next_pc, current_pc, regs, hi, lo, icache, load, branch,
                    delay_slot, debug_on_break, cop0, gte, mem, cache_control,
                    tk, fatal, pre, trace, frame, rnf>>

BiosDummy == BiosReturns([NoBiosCall EXCEPT !.call = "dummy"], Bios_dummy)

\* a Bios is deserialized from the elements `input`, and replaces the one
\* at hand if there is one
BiosDeserialize(INPUTS) ==
    \E input \in INPUTS :
        LET r == deserialize(input)
        IN  BiosReturns([NoBiosCall EXCEPT !.call = "deserialize",
                                          !.input = input,
                                          !.ok = r.ok,
                                          !.message = r.message],
                        IF r.ok THEN r.bios ELSE bios)

BiosSerialize ==
    BiosReturns([NoBiosCall EXCEPT !.call = "serialize",
                                  !.output = serialize(bios)],
                bios)

BiosPatchAnimationJumpHook(INSTRS) ==
    \E instr \in INSTRS :
        LET r == patch_animation_jump_hook(bios, instr)
        IN  BiosReturns([NoBiosCall EXCEPT !.call = "patch_animation_jump_hook",
                                          !.instr = instr,
                                          !.ok = r.ok],
                        r.bios)

BiosPatchBootAnimation ==
    LET r == patch_boot_animation(bios)
    IN  BiosReturns([NoBiosCall EXCEPT !.call = "patch_boot_animation",
                                      !.ok = r.ok],
                    r.bios)

BiosLoad(OFFSETS) ==
    \E offset \in OFFSETS :
        BiosReturns([NoBiosCall EXCEPT !.call = "load",
                                      !.offset = offset,
                                      !.value = bios_load(bios, 4, offset)],
                    bios)

(***************************************************************************)
(* Spec: runs of loads and of the instructions around them, from a CPU     *)
(* with interrupts enabled whose r1 and r2 hold addresses and whose memory *)
(* holds cafebabe at the address in r1                                     *)
(***************************************************************************)
LoadInstrs ==
    {NOP, LW_r2_0_r1, LW_r3_0_r1, LW_r3_0_r2, LW_r0_0_r1, ADDIU_r3_r2_0,
     ADDIU_r4_r2_0, ADDU_r0_r1_r1, JALR_r0_r1, GTE_CMD}

Init ==
    \E r2v \in {Zero, W(32768, 512)} :
        StartsAs([Cpu_new EXCEPT !.regs[1] = W(32768, 256),
                                 !.regs[2] = r2v,
                                 !.regs[3] = W(57005, 0),
                                 !.cop0.sr = W(0, 1025),
                                 !.mem     = (W(32768, 256) :> W(51966, 47806))])

Next == RunNextInstruction(LoadInstrs, {W(4660, 22136)}, BOOLEAN)

Spec == Init /\ [][Next]_vars

(***************************************************************************)
(* SpecBranch: runs of branches, jumps to a misaligned address, coprocessor *)
(* instructions and interrupts, with the PC moved by set_pc and force_pc   *)
(* between steps. The CPU starts at 80001000 with r1 = 80001002; memory    *)
(* is empty or holds the three-instruction branch program.                 *)
(***************************************************************************)
BranchInstrs ==
    {NOP, BEQ_r0_r0_1, ADDIU_r1_r0_1234, ADDIU_r1_r0_5678, JR_r1, COP1, GTE_CMD}

\* beq r0, r0, +1 at 80001000, addiu r1, r0, 0x1234 at 80001004 and
\* addiu r1, r0, 0x5678 at 80001008
BranchProgram ==
    (W(32768, 4096) :> BEQ_r0_r0_1) @@ (W(32768, 4100) :> ADDIU_r1_r0_1234)
        @@ (W(32768, 4104) :> ADDIU_r1_r0_5678)

\* an aligned and a misaligned address
PcValues == {W(32768, 4096), W(32768, 4098)}

InitBranch ==
    \E m \in {<<>>, BranchProgram} :
        StartsAs([set_pc(Cpu_new, W(32768, 4096))
                    EXCEPT !.regs[1] = W(32768, 4098),
                           !.cop0.sr = W(0, 1025),
                           !.mem     = m])

NextBranch ==
    \/ RunNextInstruction(BranchInstrs, {Zero}, BOOLEAN)
    \/ ForcePc(PcValues)
    \/ SetPc(PcValues)
    \/ SetDebugOnBreak

SpecBranch == InitBranch /\ [][NextBranch]_vars

(***************************************************************************)
(* SpecArith: runs of additions, subtractions and divisions of r1 and r2,  *)
(* which start with values at and around the ends of the i32 and u32       *)
(* ranges, and of a load of r3, the destination of the sums. No interrupt. *)
(***************************************************************************)
ArithInstrs ==
    {ADD_r3_r1_r2, ADDU_r3_r1_r2, SUB_r3_r1_r2, SUBU_r3_r1_r2, ADDI_r3_r1_1,
     ADDI_r3_r1_m1, ADDIU_r3_r1_1, ADDIU_r3_r1_m1, DIV_r1_r2, DIVU_r1_r2,
     LW_r3_0_r5}

\* 0, 1, 2, 7, 7fffffff, 80000000, -7, -1
Operands ==
    {Zero, U(1), U(2), U(7), W(32767, 65535), W(32768, 0), W(65535, 65529),
     W(65535, 65535)}

InitArith ==
    \E a \in Operands, b \in Operands :
        StartsAs([Cpu_new EXCEPT !.regs[1] = a,
                                 !.regs[2] = b,
                                 !.regs[5] = W(32768, 256)])

NextArith ==
    /\ Len(trace) < MaxArithSteps
    /\ RunNextInstruction(ArithInstrs, {W(51966, 47806)}, {FALSE})

SpecArith == InitArith /\ [][NextArith]_vars

(***************************************************************************)
(* SpecExc: runs of the instructions that raise the exceptions, of RFE and *)
(* of interrupts. r1 = 7fffffff (odd, and overflowing when 1 is added),    *)
(* r2 = 1, r4 = 80000101 (misaligned); SR has the interrupt mask bit 10,   *)
(* BEV set or clear and the mode bits 111001 or 011110.                    *)
(***************************************************************************)
ExcInstrs ==
    {SYSCALL, BREAK, ILLEGAL, COP1, ADD_r3_r1_r2, LW_r3_0_r4, SW_r3_0_r4,
     JR_r1, RFE}

InitExc ==
    \E high \in {0, 64}, mode \in {57, 30} :
        StartsAs([set_pc(Cpu_new, W(32768, 4096))
                    EXCEPT !.regs[1] = W(32767, 65535),
                           !.regs[2] = U(1),
                           !.regs[4] = W(32768, 257),
                           !.cop0.sr = W(high, 1024 + mode)])

NextExc == RunNextInstruction(ExcInstrs, {Zero}, BOOLEAN)

SpecExc == InitExc /\ [][NextExc]_vars

(***************************************************************************)
(* SpecCache: runs with the instruction cache. The cache is enabled at     *)
(* the start, in tag test mode or not, isolated (SR.IsC) or not; the cache *)
(* control register and the PC change between steps. The code is in KSEG0, *)
(* at 80002000 (bucket 0) and at 80001010 (bucket 1); r1 = 00003010, an    *)
(* address of bucket 1 with another tag.                                   *)
(***************************************************************************)
CacheProgram ==
    (W(32768, 8192) :> SW_r0_0_r1) @@ (W(32768, 8196) :> SW_r0_0_r1)
        @@ (W(32768, 8200) :> MTC0_r0_SR) @@ (W(32768, 8204) :> NOP)
        @@ (W(32768, 4112) :> SW_r0_0_r1) @@ (W(32768, 4116) :> ADDIU_r1_r0_1234)
        @@ (W(32768, 4120) :> NOP) @@ (W(32768, 4124) :> NOP)

\* 80001010 and 80001018 (bucket 1, tag 1) and 80000014 (bucket 1, tag 0)
CachePcValues == {W(32768, 4112), W(32768, 4120), W(32768, 20)}

InitCache ==
    \E high \in {0, 1}, tag_test \in BOOLEAN :
        StartsAs([set_pc(Cpu_new, W(32768, 8192))
                    EXCEPT !.regs[1] = W(0, 12304),
                           !.cop0.sr = W(high, 0),
                           !.cc      = [icache_enabled |-> TRUE,
                                        tag_test_mode  |-> tag_test],
                           !.mem     = CacheProgram])

NextCache ==
    \/ RunNextInstructionWithin(MaxCacheSteps, {NOP}, {Zero}, {FALSE}, {0})
    \/ SetPcWithin(MaxCacheSteps, CachePcValues)
    \/ SetCacheControl(MaxCacheSteps)

SpecCache == InitCache /\ [][NextCache]_vars

(***************************************************************************)
(* SpecUnaligned: runs of LWL and LWR of r2 at the offsets 0..7 of the     *)
(* address in r1 = 80000100, where memory holds the bytes 11, 22, ..., cc; *)
(* r2 starts as deadbeef or as 0. No interrupt.                            *)
(***************************************************************************)
UnalignedInstrs ==
    {NOP} \cup {LWL_r2_r1(k) : k \in 0..7} \cup {LWR_r2_r1(k) : k \in 0..7}

UnalignedData ==
    (W(32768, 256) :> W(17459, 8721)) @@ (W(32768, 260) :> W(34935, 26197))
        @@ (W(32768, 264) :> W(52411, 43673))

InitUnaligned ==
    \E r2v \in {W(57005, 48879), Zero} :
        StartsAs([Cpu_new EXCEPT !.regs[1] = W(32768, 256),
                                 !.regs[2] = r2v,
                                 !.mem     = UnalignedData])

NextUnaligned == RunNextInstruction(UnalignedInstrs, {Zero}, {FALSE})

SpecUnaligned == InitUnaligned /\ [][NextUnaligned]_vars

(***************************************************************************)
(* SpecReset: runs from the reset state, with the dummy BIOS at bfc00000.  *)
(***************************************************************************)
ResetInstrs == {NOP, SYSCALL, JR_r1, ADDIU_r1_r0_1234}

InitReset == StartsAs([Cpu_new EXCEPT !.mem = BiosMapped(Bios_dummy)])

NextReset ==
    \/ RunNextInstruction(ResetInstrs, {Zero}, BOOLEAN)
    \/ SetPc(PcValues)
    \/ SetDebugOnBreak

SpecReset == InitReset /\ [][NextReset]_vars

(***************************************************************************)
(* SpecBios: calls on a Bios, which starts as the dummy: deserializations  *)
(* of the digests of the database, of digests that are not in it and of a  *)
(* digest cut short, serializations, patches and loads.                    *)
(***************************************************************************)
DigestInputs ==
    {Digest(1), Digest(2), Digest(3), Digest(255),
     [Digest(1) EXCEPT ![32] = 9], SubSeq(Digest(1), 1, 31)}

\* 0 and 12345678
PatchInstrs == {Zero, W(4660, 22136)}

InitBios == StartsAs(Cpu_new)

NextBios ==
    \/ BiosDummy
    \/ BiosDeserialize(DigestInputs)
    \/ BiosSerialize
    \/ BiosPatchAnimationJumpHook(PatchInstrs)
    \/ BiosPatchBootAnimation
    \/ BiosLoad({0, 4, 8})

SpecBios == InitBios /\ [][NextBios]_vars

(***************************************************************************)
(* SpecFrame: calls of run_until_next_frame and single steps, of NOP and   *)
(* SYSCALL; a step leaves the frame counter or advances it by one. A call  *)
(* whose loop test fails returns (weak fairness): the program goes on.     *)
(***************************************************************************)
FrameInstrs == {NOP, SYSCALL}

InitFrame == StartsAs(set_pc(Cpu_new, W(32768, 4096)))

NextFrame ==
    \/ RunUntilNextFrameCall
    \/ RunUntilNextFrameStep(FrameInstrs, {Zero}, {FALSE}, {0, 1})
    \/ RunUntilNextFrameReturn

SpecFrame ==
    InitFrame /\ [][NextFrame]_vars /\ WF_vars(RunUntilNextFrameReturn)

(***************************************************************************)
(* SpecJump: runs of branches, jumps and links and of the instructions     *)
(* that write a register, with loads of r3 and r31 pending or not. The     *)
(* CPU starts at 80001000; r1 = 00002000 (an address of KUSEG),            *)
(* r2 = 80000000 (negative), r4 = 80001002 (misaligned), r5 = 80000100     *)
(* (data, cafebabe), r31 = 1 (positive). No interrupt.                     *)
(***************************************************************************)
JumpInstrs ==
    {NOP, LW_r3_0_r5, LW_r31_0_r5, ADDU_r3_r1_r2, SLL_r3_r2_1, LUI_r3_1234,
     MFLO_r3, SLT_r3_r2_r1, JALR_r3_r1, JR_r1, JR_r4, J_1010, JAL_1010,
     BEQ_r0_r0_1, BNE_r1_r0_m2, BNE_r0_r0_4, BLEZ_r2_3, BGTZ_r2_3, BLTZ_r2_2,
     BGEZ_r2_2, BLTZAL_r2_2, BGEZAL_r2_2, BLTZAL_r31_2, BXX_r2_10010_2}

InitJump ==
    StartsAs([set_pc(Cpu_new, W(32768, 4096))
                EXCEPT !.regs[1]  = W(0, 8192),
                       !.regs[2]  = W(32768, 0),
                       !.regs[4]  = W(32768, 4098),
                       !.regs[5]  = W(32768, 256),
                       !.regs[31] = U(1),
                       !.lo       = W(0, 22136)])

NextJump ==
    RunNextInstructionWithin(MaxJumpSteps, JumpInstrs, {W(51966, 47806)},
                             {FALSE}, {0})

SpecJump == InitJump /\ [][NextJump]_vars

(***************************************************************************)
(* SpecAlias: runs of NOPs fetched at the same offsets of KUSEG, KSEG0 and *)
(* KSEG1, with the cache enabled at the start; the cache control register  *)
(* and the PC change between steps. The cache is not isolated.             *)
(***************************************************************************)
\* 00001010 (KUSEG), 80001010 and 80001018 (KSEG0), a0001010 (KSEG1)
AliasPcValues == {W(0, 4112), W(32768, 4112), W(32768, 4120), W(40960, 4112)}

InitAlias ==
    \E p \in {W(0, 4112), W(32768, 4112)} :
        StartsAs([set_pc(Cpu_new, p)
                    EXCEPT !.cc = [icache_enabled |-> TRUE,
                                   tag_test_mode  |-> FALSE]])

NextAlias ==
    \/ RunNextInstructionWithin(MaxAliasSteps, {NOP}, {Zero}, {FALSE}, {0})
    \/ SetPcWithin(MaxAliasSteps, AliasPcValues)
    \/ SetCacheControl(MaxAliasSteps)

SpecAlias == InitAlias /\ [][NextAlias]_vars

(***************************************************************************)
(* SpecIsolate: runs of the store instructions, with the cache enabled and *)
(* isolated (SR.IsC) or not, in tag test mode or not. The eight words of   *)
(* code are at 80001010..8000102c (buckets 1 and 2); every store is to     *)
(* the address in r1 = 80001010, the first word of the code; r3 =          *)
(* deadbeef. The PC moves between steps.                                   *)
(***************************************************************************)
IsolateProgram ==
    (W(32768, 4112) :> SW_r3_0_r1) @@ (W(32768, 4116) :> SB_r0_0_r1)
        @@ (W(32768, 4120) :> SH_r0_0_r1) @@ (W(32768, 4124) :> SWL_r0_0_r1)
        @@ (W(32768, 4128) :> SWR_r0_0_r1) @@ (W(32768, 4132) :> SWC2_0_0_r1)
        @@ (W(32768, 4136) :> SW_r0_0_r1) @@ (W(32768, 4140) :> NOP)

IsolatePcValues == DOMAIN IsolateProgram

InitIsolate ==
    \E high \in {0, 1}, tag_test \in BOOLEAN :
        StartsAs([set_pc(Cpu_new, W(32768, 4112))
                    EXCEPT !.regs[1] = W(32768, 4112),
                           !.cop0.sr = W(high, 0),
                           !.cc      = [icache_enabled |-> TRUE,
                                        tag_test_mode  |-> tag_test],
                           !.mem     = IsolateProgram])

NextIsolate ==
    \/ RunNextInstructionWithin(MaxIsolateSteps, {NOP}, {Zero}, {FALSE}, {0})
    \/ SetPcWithin(MaxIsolateSteps, IsolatePcValues)

SpecIsolate == InitIsolate /\ [][NextIsolate]_vars

(***************************************************************************)
(* SpecFatal: runs of the coprocessor instructions and of the stores, from *)
(* the reset state with r1 = 00010000 (written to SR it sets IsC) and r5 = *)
(* 80000100, the address of a word of 0. The interconnect handed to        *)
(* Cpu::new has its I-cache enabled or not.                                *)
(***************************************************************************)
\* mfc0 r3, cop0r12 (SR)
MFC0_r3_SR == W(16387, 24576)

\* mfc0 r3, cop0r6 (JUMP_DEST)
MFC0_r3_r6 == W(16387, 12288)

\* mfc0 r3, cop0r15 (PRID)
MFC0_r3_r15 == W(16387, 30720)

\* mfc0 r3, cop0r3
MFC0_r3_r3 == W(16387, 6144)

\* mfc0 r3, cop0r16
MFC0_r3_r16 == W(16387, 32768)

\* mtc0 r0, cop0r3 (BPC)
MTC0_r0_r3 == W(16512, 6144)

\* mtc0 r1, cop0r3 (BPC)
MTC0_r1_r3 == W(16513, 6144)

\* mtc0 r1, cop0r12 (SR)
MTC0_r1_SR == W(16513, 24576)

\* mtc0 r1, cop0r13 (CAUSE)
MTC0_r1_CAUSE == W(16513, 26624)

\* mtc0 r0, cop0r8 (BAD_VADDR)
MTC0_r0_r8 == W(16512, 16384)

\* cop0 with coprocessor opcode 10000 and the low bits 000001 (tlbr)
TLBR == W(16896, 1)

\* cop0 with coprocessor opcode 10000 and the low bits 1 010000
RFE_bit6 == W(16896, 80)

\* cop0 with coprocessor opcode 00010 (cfc0)
CFC0_r0_r0 == W(16448, 0)

\* cop0 with coprocessor opcode 10001 and the low bits of rfe
COP0_10001_rfe == W(16928, 16)

\* mfc2 r3, cop2r0
MFC2_r3_0 == W(18435, 0)

\* cfc2 r3, cop2r0
CFC2_r3_0 == W(18499, 0)

\* ctc2 r1, cop2r0
CTC2_r1_0 == W(18625, 0)

\* cop2 with coprocessor opcode 00001
COP2_00001 == W(18464, 0)

\* cop2 with coprocessor opcode 01000 (bc2)
BC2 == W(18688, 0)

\* sw r0, 0(r5)
SW_r0_0_r5 == W(44192, 0)

\* sw r1, 0(r5)
SW_r1_0_r5 == W(44193, 0)

\* sw r0, 1(r5)
SW_r0_1_r5 == W(44192, 1)

\* sb r0, 0(r5)
SB_r0_0_r5 == W(41120, 0)

\* sh r0, 0(r5)
SH_r0_0_r5 == W(42144, 0)

\* swl r1, 0(r5): the top byte of r1 to the low byte of the word
SWL_r1_0_r5 == W(43169, 0)

\* swl r1, 3(r5): all of r1
SWL_r1_3_r5 == W(43169, 3)

\* swr r1, 2(r5): the low half of r1 to the high half of the word
SWR_r1_2_r5 == W(47265, 2)

\* swc2 cop2r0, 0(r5)
SWC2_0_0_r5 == W(59552, 0)

FatalInstrs ==
    {MFC0_r3_SR, MFC0_r3_r6, MFC0_r3_r15, MFC0_r3_r3, MFC0_r3_r16,
     MTC0_r0_r3, MTC0_r1_r3, MTC0_r1_SR, MTC0_r1_CAUSE, MTC0_r0_r8,
     RFE, TLBR, RFE_bit6, CFC0_r0_r0, COP0_10001_rfe,
     MFC2_r3_0, CFC2_r3_0, MTC2_r1_0, CTC2_r1_0, COP2_00001, BC2, GTE_CMD,
     SW_r0_0_r5, SW_r1_0_r5, SW_r0_1_r5, SB_r0_0_r5, SH_r0_0_r5,
     SWL_r1_0_r5, SWL_r1_3_r5, SWR_r1_2_r5, SWC2_0_0_r5, ILLEGAL}

InitFatal ==
    \E enabled \in BOOLEAN :
        StartsAs([Cpu_new EXCEPT !.regs[1] = W(1, 0),
                                 !.regs[5] = W(32768, 256),
                                 !.cc.icache_enabled = enabled,
                                 !.mem = (W(32768, 256) :> Zero)])

NextFatal ==
    RunNextInstructionWithin(MaxFatalSteps, FatalInstrs, {Zero}, {FALSE}, {0})

SpecFatal == InitFatal /\ [][NextFatal]_vars

(***************************************************************************)
(* SpecFault: runs of the instructions that raise an exception, of their   *)
(* neighbours that raise none and of a load, from the reset state with r1  *)
(* = 7fffffff, r2 = 1, r4 = 80000101 (odd), r5 = 80000100 (word aligned)   *)
(* and r6 = 80000102 (halfword aligned). No interrupt is requested.        *)
(***************************************************************************)
\* cop3 (an opcode of the coprocessor 3)
COP3 == W(19456, 0)

\* lwc0, lwc1, lwc3, swc0, swc1, swc3 of register 0 at 0(r5)
LWC0_0_0_r5 == W(49312, 0)

LWC1_0_0_r5 == W(50336, 0)

LWC3_0_0_r5 == W(52384, 0)

SWC0_0_0_r5 == W(57504, 0)

SWC1_0_0_r5 == W(58528, 0)

SWC3_0_0_r5 == W(60576, 0)

\* lw r3, 0(r6)
LW_r3_0_r6 == W(36035, 0)

\* lh r3, 0(r4)
LH_r3_0_r4 == W(33923, 0)

\* lh r3, 0(r6)
LH_r3_0_r6 == W(33987, 0)

\* lhu r3, 0(r4)
LHU_r3_0_r4 == W(38019, 0)

\* lb r3, 0(r4)
LB_r3_0_r4 == W(32899, 0)

\* lwc2 cop2r0, 0(r6)
LWC2_0_0_r6 == W(51392, 0)

\* lwc2 cop2r0, 0(r5)
LWC2_0_0_r5 == W(51360, 0)

\* sh r0, 0(r4)
SH_r0_0_r4 == W(42112, 0)

\* sh r0, 0(r6)
SH_r0_0_r6 == W(42176, 0)

\* sw r0, 0(r6)
SW_r0_0_r6 == W(44224, 0)

\* swc2 cop2r0, 0(r6)
SWC2_0_0_r6 == W(59584, 0)

\* sb r0, 0(r4)
SB_r0_0_r4 == W(41088, 0)

FaultInstrs ==
    {LW_r3_0_r5, ILLEGAL, SYSCALL, BREAK, COP1, COP3,
     LWC0_0_0_r5, LWC1_0_0_r5, LWC3_0_0_r5,
     SWC0_0_0_r5, SWC1_0_0_r5, SWC3_0_0_r5,
     ADD_r3_r1_r2, ADDI_r3_r1_1, SUB_r3_r1_r2,
     LW_r3_0_r4, LW_r3_0_r6, LH_r3_0_r4, LH_r3_0_r6, LHU_r3_0_r4, LB_r3_0_r4,
     LWC2_0_0_r6, LWC2_0_0_r5,
     SH_r0_0_r4, SH_r0_0_r6, SW_r0_0_r6, SW_r0_0_r5, SWC2_0_0_r6,
     SWC2_0_0_r5, SB_r0_0_r4, JR_r4}

InitFault ==
    StartsAs([Cpu_new EXCEPT !.regs[1] = W(32767, 65535),
                             !.regs[2] = U(1),
                             !.regs[4] = W(32768, 257),
                             !.regs[5] = W(32768, 256),
                             !.regs[6] = W(32768, 258)])

NextFault ==
    RunNextInstructionWithin(MaxFaultSteps, FaultInstrs, {W(51966, 47806)},
                             {FALSE}, {0})

SpecFault == InitFault /\ [][NextFault]_vars

(***************************************************************************)
(* SpecFresh: fetches through the cache as Cpu::new leaves it, with the    *)
(* I-cache enabled. The PC moves between the steps among addresses of the  *)
(* bucket 8 with the tag 0 (80000084) and with the tag 00001000 (80001080, *)
(* 80001084); r1 = 00010000 (written to SR it isolates the cache) and      *)
(* r5 = 00002084, an address of the bucket 8 and index 1.                  *)
(***************************************************************************)
FreshPcValues == {W(32768, 132), W(32768, 4224), W(32768, 4228)}

FreshInstrs == {MTC0_r1_SR, SW_r0_0_r5}

InitFresh ==
    StartsAs([Cpu_new EXCEPT !.regs[1] = W(1, 0),
                             !.regs[5] = W(0, 8324),
                             !.cc.icache_enabled = TRUE])

NextFresh ==
    \/ RunNextInstructionWithin(MaxFreshSteps, FreshInstrs, {Zero}, {FALSE}, {0})
    \/ SetPcWithin(MaxFreshSteps, FreshPcValues)

SpecFresh == InitFresh /\ [][NextFresh]_vars

(***************************************************************************)
(* Vocabulary of the properties                                            *)
(***************************************************************************)
Steps == Len(trace)

\* the n-th call of the run
Step(n) == trace[n]

\* the call ran an instruction through decode_and_execute and returned
Executed(e) ==
    e.call = "run_next_instruction" /\ e.executed /\ ~e.panicked

\* the instruction is one of those that set up a delayed load of a
\* general purpose register: LB, LH, LWL, LW, LBU, LHU, LWR, MFC0, MFC2, CFC2
IsLoadOp(op) ==
    \/ function(op) \in 32..38
    \/ function(op) = 16 /\ cop_opcode(op) = 0
    \/ function(op) = 18 /\ cop_opcode(op) \in {0, 2}

\* the register the instruction writes or loads, 0 when it has none
Target(op) ==
    CASE function(op) = 0 ->
             IF subfunction(op) \in {8, 12, 13, 17, 19, 24, 25, 26, 27}
             THEN 0 ELSE d(op)
      [] function(op) = 1 -> IF (op[1] \div 2) % 16 = 8 THEN 31 ELSE 0
      [] function(op) = 3 -> 31
      [] function(op) \in 8..15 -> t(op)
      [] IsLoadOp(op) -> t(op)
      [] OTHER -> 0

\* the call executed a load instruction that left a load pending on a
\* register other than R0
InstallsLoad(e) == Executed(e) /\ IsLoadOp(e.op) /\ e.load[1] # 0

\* the instruction is addiu rt, rs, 0 with rt another register than rs:
\* it copies what it reads in rs
ReadsInto(op, rs, rt) ==
    /\ function(op) = 9 /\ s(op) = rs /\ t(op) = rt /\ imm(op) = Zero
    /\ rt # rs /\ rt # 0

(***************************************************************************)
(* C1: R0 reads zero after every call                                      *)
(***************************************************************************)
\* C1: after every call of run_next_instruction register 0 holds 0, whatever
\* the instruction wrote to it as an ALU destination, a link register or
\* the target of a delayed load.
C1_R0AlwaysZero == regs[0] = Zero

\* a load to R0 of a nonzero word, a link to R0 and a nonzero sum to R0
\* have all been executed
C1_Witness ==
    /\ Steps = 3
    /\ \A n \in 1..3 : Executed(Step(n)) /\ Step(n).exc = <<>>
    /\ Step(1).op = LW_r0_0_r1 /\ Step(1).load = <<0, W(51966, 47806)>>
    /\ Step(2).op = JALR_r0_r1
    /\ Step(3).op = ADDU_r0_r1_r1
    /\ wrapping_add(pre.regs[1], pre.regs[1]) # Zero

(***************************************************************************)
(* C4: a delayed load is committed by the next executed instruction        *)
(***************************************************************************)
\* C4: if step N installs a delayed load (r, v) with r # 0, then whatever
\* instruction step N+1 executes, the load is no longer pending when step N+1
\* ends, and r holds v unless that instruction wrote r or installed a new
\* load of r.
C4_LoadCommittedByNextInstruction ==
    Steps >= 2 =>
        LET a == Step(Steps - 1)
            b == Step(Steps)
        IN  InstallsLoad(a) /\ Executed(b) =>
                /\ load[1] = 0 \/ InstallsLoad(b)
                /\ regs[a.load[1]] = a.load[2] \/ Target(b.op) = a.load[1]

\* lw r2, 0(r1) then a GTE command: the load of r2 is still pending
C4_Witness ==
    /\ Steps = 2
    /\ Step(1).op = LW_r2_0_r1 /\ InstallsLoad(Step(1))
    /\ Step(2).op = GTE_CMD /\ Executed(Step(2)) /\ Step(2).path = "execute"
    /\ load = <<2, W(51966, 47806)>>
    /\ regs[2] # W(51966, 47806)

(***************************************************************************)
(* C5: the load delay slot                                                 *)
(***************************************************************************)
\* an instruction reads its source before the pending load of that
\* register is committed
C5_ReadsBeforeCommit ==
    Steps >= 1 =>
        LET b == Step(Steps)
        IN  \A rt \in 1..31 :
                /\ Executed(b) /\ b.exc = <<>>
                /\ pre.load[1] # 0 /\ ReadsInto(b.op, pre.load[1], rt)
                => regs[rt] = pre.regs[pre.load[1]]

\* the second instruction after a load of r reads the loaded value, when
\* the first has not written r
C5_SecondReadsLoaded ==
    Steps >= 3 =>
        LET a  == Step(Steps - 2)
            b  == Step(Steps - 1)
            cc == Step(Steps)
        IN  \A rt \in 1..31 :
                /\ InstallsLoad(a) /\ Executed(b) /\ Executed(cc)
                /\ cc.exc = <<>>
                /\ Target(b.op) # a.load[1]
                /\ ReadsInto(cc.op, a.load[1], rt)
                => regs[rt] = a.load[2]

\* lw r2, 0(r1); addiu r3, r2, 0; addiu r4, r2, 0 with r2 = 0 and cafebabe
\* in memory: r3 = 0 and r4 = cafebabe
C5_Instance ==
    /\ Steps = 3
    /\ \A n \in 1..3 : Step(n).path = "execute" /\ Step(n).exc = <<>>
    /\ Step(1).op = LW_r2_0_r1 /\ Step(1).regs[2] = Zero
    /\ Step(1).load = <<2, W(51966, 47806)>>
    /\ Step(2).op = ADDIU_r3_r2_0
    /\ Step(3).op = ADDIU_r4_r2_0
    => regs[3] = Zero /\ regs[4] = W(51966, 47806)

\* C5: the instruction right after a load of r reads the old value of r and
\* the one after it reads the loaded value; every instruction reads its
\* sources before the pending load is committed; the three-instruction
\* sequence of the specification gives r3 = 0 and r4 = cafebabe.
C5_LoadDelaySlot ==
    C5_ReadsBeforeCommit /\ C5_SecondReadsLoaded /\ C5_Instance

\* lw r2, 0(r1); a GTE command; addiu r4, r2, 0: r4 gets the old r2
C5_Witness ==
    /\ Steps = 3
    /\ \A n \in 1..3 : Step(n).path = "execute" /\ Step(n).exc = <<>>
    /\ Step(1).op = LW_r2_0_r1 /\ Step(1).regs[2] = Zero
    /\ Step(1).load = <<2, W(51966, 47806)>>
    /\ Step(2).op = GTE_CMD
    /\ Step(3).op = ADDIU_r4_r2_0
    /\ regs[4] = Zero
    /\ regs[2] = W(51966, 47806)

(***************************************************************************)
(* C6: chained loads                                                       *)
(***************************************************************************)
\* a load instruction that follows a pending load of the same register
\* discards the pending value; one that follows a pending load of another
\* register commits it; the new load is the only one pending
C6_Chain ==
    Steps >= 1 =>
        LET b == Step(Steps)
        IN  InstallsLoad(b) /\ b.exc = <<>> =>
                /\ load[1] = t(b.op)
                /\ regs = IF pre.load[1] = t(b.op)
                          THEN pre.regs
                          ELSE [pre.regs EXCEPT ![pre.load[1]] =
                                   IF pre.load[1] = 0 THEN Zero ELSE pre.load[2]]

\* lw r3, 0(r1); lw r3, 0(r2); nop: r3 ends with the word at r2 and never
\* holds the word at r1
C6_Instance ==
    /\ Steps = 3
    /\ \A n \in 1..3 : Step(n).path = "execute" /\ Step(n).exc = <<>>
    /\ Step(1).op = LW_r3_0_r1
    /\ Step(2).op = LW_r3_0_r2
    /\ Step(3).op = NOP
    => /\ regs[3] = Step(2).load[2]
       /\ Step(2).load[2] = inter_load(mem, 4, pre.regs[2])
       /\ \A n \in 1..3 : Step(n).regs[3] # Step(1).load[2]

\* C6: when a load instruction executes with a load pending, a pending load
\* of the same register is discarded and its value never reaches the
\* register, a pending load of another register is committed before the new
\* one is installed, and one load at most is pending.
C6_ChainedLoads == C6_Chain /\ C6_Instance

\* the three instructions have run and the two words differ
C6_Witness ==
    /\ Steps = 3
    /\ \A n \in 1..3 : Step(n).path = "execute" /\ Step(n).exc = <<>>
    /\ Step(1).op = LW_r3_0_r1 /\ Step(1).load = <<3, W(51966, 47806)>>
    /\ Step(2).op = LW_r3_0_r2 /\ Step(2).load = <<3, W(4660, 22136)>>
    /\ Step(3).op = NOP
    /\ regs[3] = W(4660, 22136)

(***************************************************************************)
(* C2: delay_slot follows branch                                           *)
(***************************************************************************)
\* C2: for every step of run_next_instruction, the step that takes the
\* misaligned-PC LoadAddressError and the step that takes an interrupt
\* included, delay_slot at the end of the step equals the branch flag at the
\* end of the step before.
C2_DelaySlotIsPreviousBranch ==
    Steps >= 1 /\ Step(Steps).call = "run_next_instruction" /\ ~fatal
        => delay_slot = pre.branch

\* jr r1 to a misaligned address and its delay slot have run; the step at
\* the misaligned PC ends with delay_slot still set though the step before
\* left branch clear
C2_Witness ==
    /\ Steps = 3
    /\ \A n \in 1..3 : Step(n).call = "run_next_instruction"
    /\ Step(1).op = JR_r1 /\ Step(1).path = "execute"
    /\ Step(2).op = NOP /\ Step(2).path = "execute"
    /\ Step(3).path = "misaligned"
    /\ ~pre.branch /\ delay_slot

(***************************************************************************)
(* C3: next_pc follows pc unless the step branched                         *)
(***************************************************************************)
\* C3: after every run_next_instruction that leaves the branch flag false,
\* next_pc = pc + 4 modulo 2^32, whether the step executed an instruction,
\* entered an exception or an interrupt, or took the misaligned-PC path.
C3_NextPcFollowsPc ==
    Steps >= 1 /\ Step(Steps).call = "run_next_instruction" /\ ~branch
        => next_pc = wrapping_add(pc, U(4))

\* a step that took an interrupt, set_pc to a misaligned address, and a
\* step that took the misaligned-PC path
C3_Witness ==
    /\ Steps = 3
    /\ Step(1).path = "interrupt" /\ Step(1).exc = <<"Interrupt">>
    /\ Step(2).call = "set_pc"
    /\ Step(3).path = "misaligned" /\ Step(3).exc = <<"LoadAddressError">>
    /\ ~branch

(***************************************************************************)
(* C7: the branch delay slot on three instructions                         *)
(***************************************************************************)
\* three steps without interrupt have run the branch program from 80001000
RanBranchProgram ==
    /\ Steps = 3
    /\ \A n \in 1..3 : Step(n).call = "run_next_instruction" /\ ~Step(n).irq
    /\ Step(1).cpc = W(32768, 4096)
    /\ \A a \in DOMAIN BranchProgram : a \in DOMAIN mem /\ mem[a] = BranchProgram[a]

\* C7: with beq r0, r0, +1 (10000001) at 80001000, addiu r1, r0, 0x1234 at
\* 80001004 and addiu r1, r0, 0x5678 at 80001008, three steps from
\* pc = 80001000 without interrupt end with r1 = 0x5678 and pc = 8000100c:
\* the delay-slot instruction executed, then the branch target 80001008.
C7_BranchTargetExecuted ==
    RanBranchProgram =>
        /\ regs[1] = W(0, 22136)
        /\ pc = W(32768, 4108)
        /\ Step(2).cpc = W(32768, 4100) /\ Step(2).regs[1] = W(0, 4660)
        /\ Step(3).cpc = W(32768, 4104)

\* C7 as stated: after the three steps r1 = 0x1234 and pc = 8000100c, the
\* instruction at 80001008 skipped
C7_AsStated ==
    RanBranchProgram => regs[1] = W(0, 4660) /\ pc = W(32768, 4108)

\* the three steps have run, the second in the delay slot of the first
C7_Witness ==
    /\ RanBranchProgram
    /\ \A n \in 1..3 : Step(n).path = "execute" /\ Step(n).exc = <<>>
    /\ Step(1).op = BEQ_r0_r0_1
    /\ Step(2).op = ADDIU_r1_r0_1234
    /\ Step(3).op = ADDIU_r1_r0_5678

(***************************************************************************)
(* C10: interrupts and COP2 instructions                                   *)
(***************************************************************************)
\* the registers an instruction can change other than the PC and Cop0
Data(c) == <<c.regs, c.hi, c.lo, c.gte, c.load>>

\* the step stored nothing: memory holds what it held, and the words the
\* step fetched
MemoryKept(e) ==
    e.stores = <<>> /\ \A a \in DOMAIN pre.mem : mem[a] = pre.mem[a]

\* C10: at a step where Cop0 reports an active interrupt, the fetched
\* instruction is not executed (registers, HI, LO, memory and GTE keep their
\* values) and the Interrupt exception is entered, unless the instruction is
\* a COP2 instruction (bits 31:26 = 010010): then, and only then, it is
\* executed and the Interrupt exception is entered after it in the same step.
C10_InterruptBeforeAllButCop2 ==
    Steps >= 1 /\ Step(Steps).path = "interrupt" /\ ~fatal =>
        LET b == Step(Steps)
        IN  /\ b.exc # <<>> /\ b.exc[Len(b.exc)] = "Interrupt"
            /\ b.executed <=> function(b.op) = 18
            /\ MemoryKept(b)
            /\ function(b.op) # 18 =>
                   /\ Data(Cpu) = Data(pre)
                   /\ b.exc = <<"Interrupt">>
            /\ function(b.op) = 18 =>
                   Data(Cpu) = Data(decode_and_execute(
                                  [pre EXCEPT !.current_pc = b.cpc], b.op, b.irq))

\* an interrupt step that fetched a GTE command and did not run it
C10_Witness ==
    /\ Steps >= 1
    /\ Step(Steps).path = "interrupt"
    /\ Step(Steps).op = GTE_CMD
    /\ ~Step(Steps).executed
    /\ gte = pre.gte
    /\ Step(Steps).exc = <<"Interrupt">>

(***************************************************************************)
(* C8: checked and wrapping additions and subtractions                     *)
(***************************************************************************)
IsAddSub(op) ==
    \/ function(op) = 0 /\ subfunction(op) \in 32..35
    \/ function(op) \in {8, 9}

\* ADD, ADDI and SUB, which check for overflow
IsChecked(op) ==
    \/ function(op) = 0 /\ subfunction(op) \in {32, 34}
    \/ function(op) = 8

IsSubtraction(op) == function(op) = 0 /\ subfunction(op) \in {34, 35}

\* the second operand, as the CPU had it before the step
SecondOperand(op) == IF function(op) = 0 THEN pre.regs[t(op)] ELSE imm_se(op)

\* the result modulo 2^32
Wrapped(op) ==
    IF IsSubtraction(op)
    THEN wrapping_sub(pre.regs[s(op)], SecondOperand(op))
    ELSE wrapping_add(pre.regs[s(op)], SecondOperand(op))

\* the signed operation overflows: the operands' signs allow it and the
\* sign of the wrapped result is not the first operand's
SignedOverflow(op) ==
    /\ IF IsSubtraction(op)
       THEN IsNeg(pre.regs[s(op)]) # IsNeg(SecondOperand(op))
       ELSE IsNeg(pre.regs[s(op)]) = IsNeg(SecondOperand(op))
    /\ IsNeg(Wrapped(op)) # IsNeg(pre.regs[s(op)])

\* the registers before the step, with the pending load committed
PendingCommitted ==
    [[pre.regs EXCEPT ![pre.load[1]] = pre.load[2]] EXCEPT ![0] = Zero]

\* C8: ADD, ADDI and SUB write what ADDU, ADDIU and SUBU write exactly when
\* the signed operation does not overflow; when it overflows the instruction
\* writes no register, the Overflow exception is entered (pc = handler,
\* EPC = the instruction's address outside a delay slot) and the pending
\* load is committed all the same. ADDU, ADDIU and SUBU wrap and never raise.
C8_CheckedAndWrappingSums ==
    Steps >= 1 /\ Executed(Step(Steps)) /\ IsAddSub(Step(Steps).op) =>
        LET b  == Step(Steps)
        IN  /\ load = <<0, Zero>>
            /\ IF IsChecked(b.op) /\ SignedOverflow(b.op)
               THEN /\ regs = PendingCommitted
                    /\ b.exc = <<"Overflow">>
                    /\ pc = W(32768, 128)
                    /\ next_pc = W(32768, 132)
                    /\ (cop0.cause[2] \div 4) % 32 = 12
                    /\ ~delay_slot => cop0.epc = b.cpc
               ELSE /\ regs = [[PendingCommitted EXCEPT ![Target(b.op)] =
                                   Wrapped(b.op)] EXCEPT ![0] = Zero]
                    /\ b.exc = <<>>
                    /\ pc = pre.next_pc

\* add r3, r1, r2 overflowed while a load of r3 was pending: r3 holds the
\* loaded word
C8_Witness ==
    /\ Steps = 2
    /\ Step(1).op = LW_r3_0_r5 /\ Step(1).load = <<3, W(51966, 47806)>>
    /\ Step(2).op = ADD_r3_r1_r2 /\ Step(2).exc = <<"Overflow">>
    /\ pre.regs[1] = W(32767, 65535) /\ pre.regs[2] = U(1)
    /\ regs[3] = W(51966, 47806) /\ pre.regs[3] # W(51966, 47806)
    /\ cop0.epc = Step(2).cpc

(***************************************************************************)
(* C9: divisions                                                           *)
(***************************************************************************)
IsDiv(op) == function(op) = 0 /\ subfunction(op) \in {26, 27}

\* q and r are the quotient and the remainder of the signed division of n
\* by dv # 0 that truncates toward zero
SignedDivision(n, dv, q, r) ==
    /\ n = q * dv + r
    /\ r = 0 \/ (r < 0) = (n < 0)
    /\ IF dv > 0 THEN -dv < r /\ r < dv ELSE dv < r /\ dv < -r

\* q and r are the quotient and the remainder of the unsigned division of
\* n by dv # 0
UnsignedDivision(n, dv, q, r) ==
    /\ MulU64(q, dv).hi = Zero
    /\ wrapping_add(MulU64(q, dv).lo, r) = n
    /\ ~Ltu(n, MulU64(q, dv).lo)
    /\ Ltu(r, dv)

\* C9: DIV and DIVU raise no exception and hit no fatal assertion. DIV by
\* zero gives HI = dividend and LO = ffffffff for a dividend >= 0, LO = 1
\* otherwise; DIV of 80000000 by -1 gives HI = 0, LO = 80000000; DIVU by zero
\* gives HI = dividend, LO = ffffffff; otherwise HI is the remainder and LO
\* the quotient of the division that truncates toward zero.
C9_Divisions ==
    Steps >= 1 /\ Step(Steps).path = "execute" /\ IsDiv(Step(Steps).op) =>
        LET b  == Step(Steps)
            n  == pre.regs[s(b.op)]
            dv == pre.regs[t(b.op)]
        IN  /\ ~b.panicked /\ ~fatal
            /\ b.exc = <<>>
            /\ regs = PendingCommitted
            /\ IF subfunction(b.op) = 26
               THEN CASE dv = Zero ->
                           /\ hi = n
                           /\ lo = IF IsNeg(n) THEN U(1) ELSE W(65535, 65535)
                      [] n = W(32768, 0) /\ dv = W(65535, 65535) ->
                           hi = Zero /\ lo = W(32768, 0)
                      [] OTHER ->
                           SignedDivision(ToI32(n), ToI32(dv), ToI32(lo), ToI32(hi))
               ELSE IF dv = Zero
                    THEN hi = n /\ lo = W(65535, 65535)
                    ELSE UnsignedDivision(n, dv, lo, hi)

\* div of 80000000 by -1, after a divu of the same operands
C9_Witness ==
    /\ Steps = 2
    /\ Step(1).op = DIVU_r1_r2 /\ Step(1).path = "execute"
    /\ Step(2).op = DIV_r1_r2 /\ Step(2).path = "execute"
    /\ pre.regs[1] = W(32768, 0) /\ pre.regs[2] = W(65535, 65535)
    /\ pre.hi = W(32768, 0) /\ pre.lo = Zero
    /\ hi = Zero /\ lo = W(32768, 0)

(***************************************************************************)
(* C11: a step that raises an exception returns with pc at the handler     *)
(* vector (bfc00180 when SR.BEV was set, 80000080 otherwise) and           *)
(* next_pc = pc + 4, and the process goes on; the step after it fetches    *)
(* and executes the instruction at the vector.                             *)
(***************************************************************************)
Vector(cp) == IF (cp.sr[1] \div 64) % 2 = 1 THEN W(49088, 384) ELSE W(32768, 128)

Raised(e) == e.call = "run_next_instruction" /\ e.exc # <<>>

C11_ExceptionEntersHandler ==
    /\ Steps >= 1 /\ Raised(Step(Steps)) =>
           /\ ~fatal
           /\ ~Step(Steps).panicked
           /\ pc = Vector(pre.cop0)
           /\ next_pc = wrapping_add(pc, U(4))
    /\ /\ Steps >= 2
       /\ Raised(Step(Steps - 1))
       /\ Step(Steps).call = "run_next_instruction"
       => /\ Step(Steps).cpc = Step(Steps - 1).pc
          /\ Step(Steps).path = "execute"
          /\ Step(Steps).executed

\* with BEV set, a SYSCALL, then a BREAK at the vector, then a third step at
\* the vector again
C11_Witness ==
    /\ Steps = 3
    /\ \A n \in 1..3 : Step(n).call = "run_next_instruction"
    /\ Step(1).exc = <<"SysCall">>
    /\ Step(2).exc = <<"Break">>
    /\ Step(2).cpc = W(49088, 384)
    /\ Step(3).cpc = W(49088, 384)
    /\ Step(3).executed
    /\ ~fatal

(***************************************************************************)
(* C12: SR[5:0] is a stack of three (KU, IE) pairs: every exception entry  *)
(* of a step pushes a 0/0 pair (the old pair is lost), RFE pops (the old   *)
(* pair is kept), an entry followed by RFE restores the current and the    *)
(* previous pair, and neither changes another bit of SR.                   *)
(***************************************************************************)
\* the pairs <<current, previous, old>> of an SR value
Pairs(sr) ==
    <<sr[2] % 4, (sr[2] \div 4) % 4, (sr[2] \div 16) % 4>>

OtherBits(sr) == <<sr[1], sr[2] \div 64>>

Pushed(p) == <<0, p[1], p[2]>>

Popped(p) == <<p[2], p[3], p[3]>>

RECURSIVE PushedTimes(_, _)
PushedTimes(p, k) == IF k = 0 THEN p ELSE PushedTimes(Pushed(p), k - 1)

IsRfe(e) == Executed(e) /\ e.op = RFE

C12_ModeStack ==
    \A n \in 1..Steps :
        LET e == Step(n)
        IN  e.call = "run_next_instruction" /\ ~e.panicked =>
                /\ OtherBits(e.sr) = OtherBits(e.sr_before)
                /\ Pairs(e.sr) =
                      PushedTimes(IF IsRfe(e) THEN Popped(Pairs(e.sr_before))
                                              ELSE Pairs(e.sr_before),
                                  Len(e.exc))
                /\ /\ n >= 2
                   /\ IsRfe(e)
                   /\ e.exc = <<>>
                   /\ Len(Step(n - 1).exc) = 1
                   => /\ Pairs(e.sr)[1] = Pairs(Step(n - 1).sr_before)[1]
                      /\ Pairs(e.sr)[2] = Pairs(Step(n - 1).sr_before)[2]

\* from the mode bits 111001: an interrupt, then RFE at the vector, then a
\* SYSCALL
C12_Witness ==
    /\ Steps = 3
    /\ Step(1).exc = <<"Interrupt">>
    /\ Pairs(Step(1).sr_before) = <<1, 2, 3>>
    /\ Pairs(Step(1).sr) = <<0, 1, 2>>
    /\ IsRfe(Step(2))
    /\ Pairs(Step(2).sr) = <<1, 2, 2>>
    /\ Step(3).exc = <<"SysCall">>
    /\ Pairs(cop0.sr) = <<0, 1, 2>>

(***************************************************************************)
(* C13: a miss of a cached fetch at pc, with k = (pc >> 2) & 3, loads the  *)
(* words at pc, pc + 4, ..., pc + (3 - k) * 4 into the positions k..3 of   *)
(* the line (pc >> 4) & ff, leaves the positions below k and every other   *)
(* line as they were, sets tag_valid to pc & 7ffff00c, and returns the     *)
(* word loaded from pc.                                                    *)
(***************************************************************************)
Bucket(addr) == (addr[2] \div 16) % 256

WordIndex(addr) == (addr[2] \div 4) % 4

\* the step fetched through the cache
CachedFetch(e) ==
    /\ e.call = "run_next_instruction"
    /\ e.path # "misaligned"
    /\ Ltu(e.cpc, W(40960, 0))
    /\ e.cc_before.icache_enabled

\* the line of the fetch did not hold the word before the step
Missed(e) ==
    LET l == ICacheAt(pre.icache, Bucket(e.cpc))
    IN  \/ And32(l.tag_valid, W(65535, 61440)) # And32(e.cpc, W(32767, 61440))
        \/ (l.tag_valid[2] \div 4) % 8 > WordIndex(e.cpc)

\* the step wrote to the cache or to its tags
WroteCache(e) ==
    /\ Executed(e)
    /\ function(e.op) \in {40, 41, 42, 43, 46, 58}
    /\ e.sr_before[1] % 2 = 1

C13_MissFillsLine ==
    Steps >= 1 /\ CachedFetch(Step(Steps)) /\ Missed(Step(Steps)) =>
        LET e   == Step(Steps)
            k   == WordIndex(e.cpc)
            old == ICacheAt(pre.icache, Bucket(e.cpc))
            new == ICacheAt(icache, Bucket(e.cpc))
        IN  /\ e.op = mem[e.cpc]
            /\ e.iloads = [j \in 1..(4 - k) |->
                               wrapping_add(e.cpc, U(4 * (j - 1)))]
            /\ ~WroteCache(e) /\ ~e.panicked =>
                   /\ \A i \in k..3 :
                          new.line[i + 1] =
                              mem[wrapping_add(e.cpc, U(4 * (i - k)))]
                   /\ \A i \in 0..(k - 1) : new.line[i + 1] = old.line[i + 1]
                   /\ new.tag_valid = And32(e.cpc, W(32767, 61452))
                   /\ \A n \in 0..255 :
                          n # Bucket(e.cpc) =>
                              ICacheAt(icache, n) = ICacheAt(pre.icache, n)

\* the line of bucket 1 filled at 80001010, then a miss at 80000014: the
\* first word of the line stays, the others are reloaded
C13_Witness ==
    /\ Steps = 4
    /\ Step(2).cpc = W(32768, 4112) /\ CachedFetch(Step(2))
    /\ Len(Step(2).iloads) = 4
    /\ ~WroteCache(Step(2))
    /\ Step(3).call = "set_pc"
    /\ Step(4).cpc = W(32768, 20) /\ CachedFetch(Step(4)) /\ Missed(Step(4))
    /\ Len(Step(4).iloads) = 3
    /\ ICacheAt(icache, 1).line = <<SW_r0_0_r1, NOP, NOP, NOP>>
    /\ ICacheAt(icache, 1).tag_valid = W(0, 4)
    /\ ~fatal

(***************************************************************************)
(* C14: after a word store of 0 to a bucket, executed with the cache       *)
(* isolated, enabled and in tag test mode, the next cached fetch of an     *)
(* address of that bucket misses and reloads from the interconnect,        *)
(* whatever steps and cache writes come in between; until then the line    *)
(* is invalid.                                                             *)
(***************************************************************************)
StoreAddr(e) == wrapping_add(e.regs_before[s(e.op)], imm_se(e.op))

\* a word store of 0 with the cache isolated and enabled
IsolatedStore(e) ==
    /\ Executed(e)
    /\ ~e.panicked
    /\ function(e.op) = 43
    /\ e.regs_before[t(e.op)] = Zero
    /\ StoreAddr(e)[2] % 4 = 0
    /\ e.sr_before[1] % 2 = 1
    /\ e.cc_before.icache_enabled

Invalidates(e) == IsolatedStore(e) /\ e.cc_before.tag_test_mode

WritesCacheWord(e) == IsolatedStore(e) /\ ~e.cc_before.tag_test_mode

FetchesFrom(e, b) == CachedFetch(e) /\ Bucket(e.cpc) = b

C14_InvalidatedLineMisses ==
    \A i \in 1..Steps :
        Invalidates(Step(i)) =>
            LET b == Bucket(StoreAddr(Step(i)))
            IN  /\ \A j \in (i + 1)..Steps :
                       /\ FetchesFrom(Step(j), b)
                       /\ \A k \in (i + 1)..(j - 1) : ~FetchesFrom(Step(k), b)
                       => /\ Step(j).iloads # <<>>
                          /\ Step(j).iloads[1] = Step(j).cpc
                          /\ Step(j).op = mem[Step(j).cpc]
                /\ (\A k \in (i + 1)..Steps : ~FetchesFrom(Step(k), b)) /\ ~fatal
                       => (ICacheAt(icache, b).tag_valid[2] \div 4) % 8 >= 4

\* bucket 1, whose line is valid with tag 0 at the start, is invalidated by
\* the first step; tag test mode is left, the next step writes a word into
\* the line, and a fetch at 80000014 then misses
C14_Witness ==
    /\ Steps = 5
    /\ Invalidates(Step(1)) /\ Bucket(StoreAddr(Step(1))) = 1
    /\ Step(2).call = "set_cache_control"
    /\ WritesCacheWord(Step(3)) /\ Bucket(StoreAddr(Step(3))) = 1
    /\ Step(4).call = "set_pc"
    /\ FetchesFrom(Step(5), 1)
    /\ Step(5).cpc = W(32768, 20)
    /\ Len(Step(5).iloads) = 3
    /\ ~fatal

(***************************************************************************)
(* C15: LWL rt, P + 3 followed by LWR rt, P leaves in rt, once the load    *)
(* has retired, the little-endian word of the four bytes at P..P + 3, for  *)
(* every alignment of P and whatever rt held before.                       *)
(***************************************************************************)
ByteAt(m, addr) ==
    LET w == m[W(addr[1], addr[2] - (addr[2] % 4))]
    IN  CASE addr[2] % 4 = 0 -> w[2] % 256
          [] addr[2] % 4 = 1 -> w[2] \div 256
          [] addr[2] % 4 = 2 -> w[1] % 256
          [] addr[2] % 4 = 3 -> w[1] \div 256

\* the little-endian word of the four bytes from addr on
UnalignedWord(m, addr) ==
    W(ByteAt(m, wrapping_add(addr, U(3))) * 256
          + ByteAt(m, wrapping_add(addr, U(2))),
      ByteAt(m, wrapping_add(addr, U(1))) * 256 + ByteAt(m, addr))

\* the steps n - 2, n - 1 and n executed LWL r2, a(r1), LWR r2, b(r1) and NOP
LwlLwrNop(n, a, b) ==
    /\ n >= 3 /\ n <= Steps
    /\ Executed(Step(n - 2)) /\ Step(n - 2).op = LWL_r2_r1(a)
    /\ Executed(Step(n - 1)) /\ Step(n - 1).op = LWR_r2_r1(b)
    /\ Executed(Step(n)) /\ Step(n).op = NOP

C15_UnalignedLoad ==
    \A n \in 3..Steps : \A p \in 0..4 :
        LwlLwrNop(n, p + 3, p) =>
            Step(n).regs[2] =
                UnalignedWord(mem, wrapping_add(Step(n).regs[1], U(p)))

\* the same with the second address the first one XOR 3, and the word at
\* the lower of the two
XorThree(a) == a - (a % 4) + (3 - (a % 4))

Lower(a, b) == IF a < b THEN a ELSE b

C15_AsStated ==
    \A n \in 3..Steps : \A a \in 0..7 :
        LwlLwrNop(n, a, XorThree(a)) =>
            Step(n).regs[2] =
                UnalignedWord(mem, wrapping_add(Step(n).regs[1],
                                                U(Lower(a, XorThree(a)))))

\* LWL r2, 5(r1), LWR r2, 2(r1), NOP: r2 = 66554433
C15_Witness ==
    /\ LwlLwrNop(3, 5, 2)
    /\ regs[1] = W(32768, 256)
    /\ regs[2] = W(26197, 17459)
    /\ pre.regs[2] \in {W(57005, 48879), Zero}

FirstStep ==
    /\ Steps >= 1
    /\ Step(1).call = "run_next_instruction"
    /\ ~Step(1).irq

DummyPattern(data) ==
    /\ DOMAIN data = 0..(BIOS_SIZE - 1)
    /\ \A i \in DOMAIN data : data[i] = <<5, 65, 16, 196>>[(i % 4) + 1]

InDatabase(digest) == \E m \in Database : m.sha256 = digest

C18_SerializedAsDigest ==
    /\ ret.call = "serialize" =>
           /\ Len(ret.output) = 32
           /\ ret.output = bios.metadata.sha256
           /\ bios = bios_pre
    /\ ret.call = "deserialize" /\ Len(ret.input) = 32 =>
           /\ ret.ok <=> InDatabase(ret.input)
           /\ ret.ok =>
                  /\ bios.metadata \in Database
                  /\ bios.metadata.sha256 = ret.input
                  /\ DummyPattern(bios.data)
           /\ ~ret.ok =>
                  /\ ret.message = "unknown BIOS checksum"
                  /\ bios = bios_pre

\* a patched Bios of the database was serialized, and its digest gave back
\* a Bios with the same metadata and the dummy data
C18_Witness ==
    /\ ret.n = 3
    /\ ret.call = "deserialize"
    /\ ret.ok
    /\ ret.input = Digest(1)
    /\ ret.input = serialize(bios_pre)
    /\ bios.metadata = bios_pre.metadata
    /\ bios.data # bios_pre.data

(***************************************************************************)
(* C19: patch_animation_jump_hook(instr) is Ok iff the metadata has an     *)
(* animation jump hook h; then the bytes h..h + 3 are instr, low byte      *)
(* first (a word load at h gives instr), and no other byte changes; on     *)
(* Err no byte changes. patch_boot_animation() does what                   *)
(* patch_animation_jump_hook(0) does.                                      *)
(***************************************************************************)
\* the Bios went from `before` to `after` as by an Ok patch of instr, or as
\* by an Err
Patched(before, after, ok, instr) ==
    LET hook == before.metadata.animation_jump_hook
    IN  /\ ok <=> hook.some
        /\ after.metadata = before.metadata
        /\ DOMAIN after.data = DOMAIN before.data
        /\ ok =>
               /\ after.data[hook.v]     = instr[2] % 256
               /\ after.data[hook.v + 1] = instr[2] \div 256
               /\ after.data[hook.v + 2] = instr[1] % 256
               /\ after.data[hook.v + 3] = instr[1] \div 256
               /\ bios_load(after, 4, hook.v) = instr
               /\ \A i \in DOMAIN after.data :
                      i \notin hook.v..(hook.v + 3) =>
                          after.data[i] = before.data[i]
        /\ ~ok => after.data = before.data

C19_AnimationJumpPatch ==
    /\ ret.call = "patch_animation_jump_hook" =>
           Patched(bios_pre, bios, ret.ok, ret.instr)
    /\ ret.call = "patch_boot_animation" =>
           Patched(bios_pre, bios, ret.ok, Zero)

\* 12345678 patched into a Bios whose hook is at offset 4
C19_Witness ==
    /\ ret.call = "patch_animation_jump_hook"
    /\ ret.ok
    /\ ret.instr = W(4660, 22136)
    /\ bios_pre.metadata.animation_jump_hook = Hook(4)
    /\ <<bios.data[4], bios.data[5], bios.data[6], bios.data[7]>>
           = <<120, 86, 52, 18>>
    /\ bios.data[3] = 196 /\ bios.data[8] = 5

(***************************************************************************)
(* C20: run_until_next_frame runs at least one step, every step it runs    *)
(* starts with the frame counter as it was at entry, it returns right      *)
(* after the first step that ends with another value and only then, and    *)
(* once the counter has changed it does return.                            *)
(***************************************************************************)
\* the frame counter at the end of call n of the trace
FrameAfter(n) == IF n < Steps THEN Step(n + 1).frame_before ELSE frame

\* the steps first + 1 .. last ran in the loop with the counter as at entry
RanInLoop(first, last) ==
    \A n \in (first + 1)..last :
        /\ Step(n).call = "run_next_instruction"
        /\ Step(n).frame_before = rnf.frame

C20_LoopSteps ==
    /\ rnf.running => RanInLoop(rnf.first, Steps)
    /\ ~rnf.running /\ rnf.calls >= 1 =>
           /\ rnf.last >= rnf.first + 1
           /\ RanInLoop(rnf.first, rnf.last)
           /\ FrameAfter(rnf.last) # rnf.frame

C20_ReturnsOnChange ==
    /\ rnf.running /\ ~rnf'.running => frame # rnf.frame /\ trace' = trace
    /\ rnf.running /\ frame # rnf.frame => trace' = trace /\ frame' = frame

C20_RunUntilNextFrame ==
    /\ []C20_LoopSteps
    /\ [][C20_ReturnsOnChange]_vars
    /\ (rnf.running /\ frame # rnf.frame) ~> ~rnf.running

\* the second call returned after three steps, of which the third changed
\* the frame counter
C20_Witness ==
    /\ ~rnf.running
    /\ rnf.calls = 2
    /\ rnf.last = rnf.first + 3
    /\ rnf.last = Steps
    /\ frame = rnf.frame + 1
    /\ ~fatal


(***************************************************************************)
(* C21: every exception of a step is entered with EPC and CAUSE.BD telling *)
(* whether the instruction at current_pc is the delay slot of a branch     *)
(***************************************************************************)
\* the last call is a step that directly follows a step whose instruction
\* set the branch flag
AfterBranchStep ==
    /\ Steps >= 2
    /\ Step(Steps).call = "run_next_instruction"
    /\ Step(Steps - 1).call = "run_next_instruction"
    /\ Step(Steps - 1).path # "misaligned"
    /\ pre.branch

\* CAUSE[31]
CauseBD(cp) == cp.cause[1] \div (2^15) = 1

\* C21: for every exception entered during a step (raised by the
\* instruction, by an interrupt or by the misaligned-PC check before the
\* fetch), CAUSE.BD is set and EPC = current_pc - 4 if the step directly
\* follows a step in which a branch or jump set the branch flag, and
\* CAUSE.BD is clear and EPC = current_pc otherwise.
C21_DelaySlotOfException ==
    Steps >= 1 /\ Raised(Step(Steps)) =>
        /\ CauseBD(cop0) <=> AfterBranchStep
        /\ cop0.epc = IF AfterBranchStep
                      THEN wrapping_sub(current_pc, U(4))
                      ELSE current_pc

\* the same on the steps the misaligned-PC path does not touch: the step
\* fetched its instruction, and the step before it, if any, did too
C21_OnFetchedSteps ==
    /\ Steps >= 1
    /\ Raised(Step(Steps))
    /\ Step(Steps).path # "misaligned"
    /\ Steps >= 2 => Step(Steps - 1).path # "misaligned"
    => /\ CauseBD(cop0) <=> AfterBranchStep
       /\ cop0.epc = IF AfterBranchStep
                     THEN wrapping_sub(current_pc, U(4))
                     ELSE current_pc

\* jr r1 to the odd address 7fffffff, rfe in its delay slot, then the step
\* at 7fffffff: the address error is entered as if in a delay slot
C21_Witness ==
    /\ Steps = 3
    /\ \A n \in 1..3 : Step(n).call = "run_next_instruction"
    /\ Step(1).op = JR_r1 /\ Step(1).path = "execute"
    /\ Step(2).op = RFE /\ Step(2).path = "execute" /\ Step(2).exc = <<>>
    /\ Step(3).path = "misaligned"
    /\ Step(3).exc = <<"LoadAddressError">>
    /\ current_pc = W(32767, 65535)
    /\ ~pre.branch
    /\ CauseBD(cop0)
    /\ cop0.epc = W(32767, 65531)


(***************************************************************************)
(* C22: a register write wins over a load pending on the same register     *)
(***************************************************************************)
\* the call executed an instruction that writes a general purpose register
\* itself (no load): ALU, shift, LUI, MFHI/MFLO, SLT*, or the link of
\* JAL/JALR/BxxAL
RegisterWrite(e) ==
    Executed(e) /\ e.exc = <<>> /\ ~IsLoadOp(e.op) /\ Target(e.op) # 0

\* the last step as it would run with no load pending
WithoutPendingLoad ==
    run_next_instruction([pre EXCEPT !.load = <<0, Zero>>, !.mem = mem],
                         Step(Steps).irq)

\* C22: when an instruction that writes a register d executes while a
\* delayed load of d is pending, d holds the instruction's own result at
\* the end of the step (what it writes when no load is pending), no load is
\* pending afterwards, and the next step, unless it writes d itself, leaves
\* d as it is: the pending load is committed before the write.
C22_WriteWinsOverPendingLoad ==
    /\ /\ Steps >= 1
       /\ RegisterWrite(Step(Steps))
       /\ pre.load[1] = Target(Step(Steps).op)
       => /\ regs[pre.load[1]] = WithoutPendingLoad.regs[pre.load[1]]
          /\ load = <<0, Zero>>
    /\ /\ Steps >= 3
       /\ RegisterWrite(Step(Steps - 1))
       /\ Step(Steps - 2).load[1] = Target(Step(Steps - 1).op)
       /\ Step(Steps).call = "run_next_instruction"
       /\ Target(Step(Steps).op) # Target(Step(Steps - 1).op)
       => regs[Target(Step(Steps - 1).op)]
              = Step(Steps - 1).regs[Target(Step(Steps - 1).op)]

\* lw r3, 0(r5) reads cafebabe; addu r3, r1, r2 runs with that load
\* pending; after a nop r3 is still the sum 80002000
C22_Witness ==
    /\ Steps = 3
    /\ \A n \in 1..3 : Executed(Step(n)) /\ Step(n).exc = <<>>
    /\ Step(1).op = LW_r3_0_r5 /\ Step(1).load = <<3, W(51966, 47806)>>
    /\ Step(2).op = ADDU_r3_r1_r2 /\ Step(2).regs[3] = W(32768, 8192)
    /\ Step(3).op = NOP
    /\ regs[3] = W(32768, 8192)
    /\ load = <<0, Zero>>

\* the link of jal runs with a load of r31 pending
C22_LinkWitness ==
    /\ Steps = 2
    /\ Step(1).op = LW_r31_0_r5 /\ Step(1).load = <<31, W(51966, 47806)>>
    /\ Step(2).op = JAL_1010 /\ Executed(Step(2))
    /\ regs[31] = W(32768, 4108)


(***************************************************************************)
(* C23: a branch leaves pc alone; its delay slot runs, then its target     *)
(***************************************************************************)
IsJumpOp(op) ==
    \/ function(op) \in {2, 3}
    \/ function(op) = 0 /\ subfunction(op) \in {8, 9}

IsCondBranchOp(op) == function(op) \in {1, 4, 5, 6, 7}

\* the condition of a conditional branch on the registers r
CondHolds(op, r) ==
    CASE function(op) = 4 -> r[s(op)] = r[t(op)]
      [] function(op) = 5 -> r[s(op)] # r[t(op)]
      [] function(op) = 6 -> IsNeg(r[s(op)]) \/ r[s(op)] = Zero
      [] function(op) = 7 -> ~IsNeg(r[s(op)]) /\ r[s(op)] # Zero
      [] function(op) = 1 -> IsNeg(r[s(op)]) # (op[1] % 2 = 1)

TakenBranch(e) ==
    /\ Executed(e) /\ e.exc = <<>>
    /\ \/ IsJumpOp(e.op)
       \/ IsCondBranchOp(e.op) /\ CondHolds(e.op, e.regs_before)

UntakenBranch(e) ==
    /\ Executed(e) /\ e.exc = <<>>
    /\ IsCondBranchOp(e.op) /\ ~CondHolds(e.op, e.regs_before)

\* a step that takes neither an exception nor an interrupt and executes no
\* branch or jump
PlainStep(e) ==
    /\ Executed(e) /\ e.path = "execute" /\ e.exc = <<>>
    /\ ~IsJumpOp(e.op) /\ ~IsCondBranchOp(e.op)

\* where the branch or jump executed at B = e.cpc goes: B + 4 + (i << 2),
\* ((B + 4) & f0000000) | (imm_jump << 2), or the register of JR/JALR
BranchTarget(e) ==
    LET B4 == wrapping_add(e.cpc, U(4))
    IN  IF function(e.op) \in {2, 3}
        THEN Or32(And32(B4, W(61440, 0)), Shl32(imm_jump(e.op), 2))
        ELSE IF function(e.op) = 0
        THEN e.regs_before[s(e.op)]
        ELSE wrapping_add(B4, Shl32(imm_se(e.op), 2))

\* step n is not in the delay slot of a taken branch or jump: the call
\* before it left next_pc = pc + 4
Sequential(n) ==
    n >= 2 => Step(n - 1).next_pc = wrapping_add(Step(n - 1).pc, U(4))

AnyStep(n) == TRUE

BranchThenDelaySlotThenTarget(Where(_)) ==
    \* a branch or jump leaves pc as the step's prologue set it
    /\ /\ Steps >= 1
       /\ Executed(Step(Steps)) /\ Step(Steps).exc = <<>>
       /\ IsJumpOp(Step(Steps).op) \/ IsCondBranchOp(Step(Steps).op)
       => pc = pre.next_pc
    \* taken at step N = Steps: next_pc is the target, the flag is set
    /\ Steps >= 1 /\ TakenBranch(Step(Steps)) /\ Where(Steps)
       => next_pc = BranchTarget(Step(Steps)) /\ branch
    \* step N + 1 = Steps is the delay slot
    /\ /\ Steps >= 2
       /\ TakenBranch(Step(Steps - 1)) /\ Where(Steps - 1)
       /\ PlainStep(Step(Steps))
       => /\ Step(Steps).cpc = wrapping_add(Step(Steps - 1).cpc, U(4))
          /\ delay_slot
    \* step N + 2 = Steps is at the target
    /\ /\ Steps >= 3
       /\ TakenBranch(Step(Steps - 2)) /\ Where(Steps - 2)
       /\ PlainStep(Step(Steps - 1))
       /\ Step(Steps).call = "run_next_instruction"
       => /\ Step(Steps).cpc = BranchTarget(Step(Steps - 2))
          /\ Step(Steps).path # "misaligned" => ~delay_slot
    \* not taken
    /\ Steps >= 1 /\ UntakenBranch(Step(Steps))
       => next_pc = wrapping_add(pc, U(4)) /\ ~branch

RegsAfterPendingLoad == delayed_load(pre).regs

\* C27: when an instruction of primary opcode 1 executes, r31 receives the
\* return address (next_pc at dispatch, the next_pc of before the step
\* plus 4) iff bits [20:17] are 1000, whether the branch is taken or not,
\* and no register is written otherwise; the branch is taken iff
\* (reg_s < 0 as signed) differs from bit 16, reg_s being read before the
\* link is written.
C27_BxxLinkAndTest ==
    /\ Steps >= 1
    /\ Executed(Step(Steps)) /\ Step(Steps).path = "execute"
    /\ function(Step(Steps).op) = 1
    => LET op    == Step(Steps).op
           link  == (op[1] \div 2) % 16 = 8
           taken == IsNeg(pre.regs[s(op)]) # (op[1] % 2 = 1)
           ra    == wrapping_add(pre.next_pc, U(4))
       IN  /\ Step(Steps).exc = <<>>
           /\ regs = IF link
                     THEN [RegsAfterPendingLoad EXCEPT ![31] = ra]
                     ELSE RegsAfterPendingLoad
           /\ branch <=> taken
           /\ next_pc = IF taken
                        THEN wrapping_add(pre.next_pc, Shl32(imm_se(op), 2))
                        ELSE ra

\* bltzal r31 with r31 = 1: linked, and not taken though the return
\* address it writes is negative
C27_Witness ==
    /\ Steps = 1
    /\ Step(1).op = BLTZAL_r31_2 /\ Executed(Step(1))
    /\ pre.regs[31] = U(1)
    /\ regs[31] = W(32768, 4104)
    /\ ~branch
    /\ next_pc = W(32768, 4104)

\* the word with bits [20:16] = 10010 branches as bltz and does not link
C27_NoLinkWitness ==
    /\ Steps = 1
    /\ Step(1).op = BXX_r2_10010_2 /\ Executed(Step(1))
    /\ regs[31] = U(1)
    /\ branch
    /\ next_pc = W(32768, 4108)

(***************************************************************************)
(* C28: the target of J and JAL                                            *)
(***************************************************************************)
\* the last call dispatched J or JAL
DispatchedJ ==
    /\ Steps >= 1
    /\ Executed(Step(Steps)) /\ Step(Steps).path = "execute"
    /\ function(Step(Steps).op) \in {2, 3}

\* (a & f0000000) | (imm_jump << 2)
RegionTarget(a, op) == Or32(And32(a, W(61440, 0)), Shl32(imm_jump(op), 2))

\* C28: whenever J or JAL is dispatched, pc is the next_pc the step before
\* left and the target written to next_pc is (pc & f0000000) |
\* (imm_jump << 2) with that pc; pc equals current_pc + 4, and the target
\* ((current_pc + 4) & f0000000) | (imm_jump << 2), unless the J/JAL sits
\* in the delay slot of a taken branch or jump (the step before left
\* next_pc # pc + 4), where pc is the target of that branch.
C28_JumpTarget ==
    DispatchedJ =>
        /\ pc = pre.next_pc
        /\ next_pc = RegionTarget(pc, Step(Steps).op)
        /\ pre.next_pc = wrapping_add(pre.pc, U(4)) =>
               /\ pc = wrapping_add(current_pc, U(4))
               /\ next_pc = RegionTarget(wrapping_add(current_pc, U(4)),
                                         Step(Steps).op)

\* C28 as stated: pc = current_pc + 4 at every dispatch of J or JAL
C28_AsStated ==
    DispatchedJ =>
        /\ pc = wrapping_add(current_pc, U(4))
        /\ next_pc = RegionTarget(wrapping_add(current_pc, U(4)),
                                  Step(Steps).op)

\* jr r1 to 00002000, then j 0x1010 in its delay slot at 80001004: pc is
\* 00002000 at the dispatch and the target is 00001010
C28_Witness ==
    /\ Steps = 2
    /\ Step(1).op = JR_r1 /\ Executed(Step(1))
    /\ Step(2).op = J_1010 /\ DispatchedJ
    /\ current_pc = W(32768, 4100)
    /\ delay_slot
    /\ pc = W(0, 8192)
    /\ next_pc = W(0, 4112)


(***************************************************************************)
(* C24: when a cached fetch hits                                           *)
(***************************************************************************)
\* the ticks of the call
StepTicks(e) == e.now - pre.tk.now

\* the fetch of the step loaded nothing from the interconnect and cost no
\* tick (the tick of the step is the one of the dispatch)
FetchHit(e) == e.iloads = <<>> /\ StepTicks(e) = 1

\* the line holds the word of address a: its tag is a & 7ffff000 and its
\* first valid index is at most (a >> 2) & 3
HoldsWord(l, a) ==
    /\ And32(l.tag_valid, W(65535, 61440)) = And32(a, W(32767, 61440))
    /\ (l.tag_valid[2] \div 4) % 8 <= WordIndex(a)

\* C24: a cached fetch at pc hits, returning the word stored in the line
\* with no load from the interconnect and no tick of the fetch, iff the
\* tag of the line is pc & 7ffff000 and its first valid index is at most
\* (pc >> 2) & 3; a line whose first valid index is 4 or more never hits;
\* and after the fetch, hit or miss, the line has the tag pc & 7ffff000 and
\* a first valid index of at most (pc >> 2) & 3 (seen at the end of the
\* steps whose instruction does not write to the cache).
C24_HitIffTagAndIndex ==
    Steps >= 1 /\ CachedFetch(Step(Steps)) =>
        LET e   == Step(Steps)
            old == ICacheAt(pre.icache, Bucket(e.cpc))
            new == ICacheAt(icache, Bucket(e.cpc))
        IN  /\ FetchHit(e) <=> HoldsWord(old, e.cpc)
            /\ HoldsWord(old, e.cpc) => e.op = old.line[WordIndex(e.cpc) + 1]
            /\ (old.tag_valid[2] \div 4) % 8 >= 4 => ~FetchHit(e)
            /\ ~WroteCache(e) /\ ~e.panicked => HoldsWord(new, e.cpc)

\* the miss at 80001018 fills the words 2 and 3 of the line, the fetch at
\* 8000101c hits, and the fetch at 80001010 misses though the tag matches
C24_Witness ==
    /\ Steps = 5
    /\ Step(1).call = "set_pc" /\ Step(1).pc = W(32768, 4120)
    /\ CachedFetch(Step(2)) /\ Step(2).cpc = W(32768, 4120)
    /\ Len(Step(2).iloads) = 2
    /\ CachedFetch(Step(3)) /\ Step(3).cpc = W(32768, 4124)
    /\ Step(3).iloads = <<>> /\ Step(3).now = Step(2).now + 1
    /\ Step(4).call = "set_pc" /\ Step(4).pc = W(32768, 4112)
    /\ CachedFetch(Step(5)) /\ Step(5).cpc = W(32768, 4112)
    /\ ICacheAt(pre.icache, 1).tag_valid = W(0, 4104)
    /\ ~FetchHit(Step(5))
    /\ Len(Step(5).iloads) = 4


(***************************************************************************)
(* C25: which fetches are cached; KUSEG and KSEG0 share the lines          *)
(***************************************************************************)
\* the step fetched an instruction
Fetched(e) == e.call = "run_next_instruction" /\ e.path # "misaligned"

\* the fetch of the last step used the cache: it loaded nothing, or it
\* changed the line of its address
ThroughCache ==
    \/ Step(Steps).iloads = <<>>
    \/ ICacheAt(icache, Bucket(Step(Steps).cpc))
           # ICacheAt(pre.icache, Bucket(Step(Steps).cpc))

\* the address with the other top bit
Alias(a) == W((a[1] + 32768) % 65536, a[2])

\* the addresses below 20000000 and their aliases from 80000000 on
InSharedSegments(a) == a[1] % 32768 < 8192

\* C25: a fetch goes through the instruction cache iff current_pc is below
\* a0000000 and the cache control register has the cache enabled;
\* otherwise the word is loaded from the interconnect at current_pc and no
\* line of the cache changes. The top bit of the address is ignored: once a
\* fetch of pc < 20000000 has filled its line, the next fetch, if it is of
\* pc | 80000000, hits that line and loads nothing, and the same with the
\* two addresses exchanged.
C25_CachedSegmentsShareLines ==
    /\ Steps >= 1 /\ Fetched(Step(Steps)) =>
           LET e   == Step(Steps)
               new == ICacheAt(icache, Bucket(e.cpc))
           IN  /\ ThroughCache <=>
                      Ltu(e.cpc, W(40960, 0)) /\ e.cc_before.icache_enabled
               /\ ThroughCache =>
                      /\ HoldsWord(new, e.cpc)
                      /\ e.op = new.line[WordIndex(e.cpc) + 1]
               /\ ~ThroughCache =>
                      /\ e.iloads = <<e.cpc>>
                      /\ e.op = mem[e.cpc]
                      /\ icache = pre.icache
    /\ \A i \in 1..(Steps - 1) :
           /\ CachedFetch(Step(i)) /\ Step(i).iloads # <<>>
           /\ InSharedSegments(Step(i).cpc)
           /\ \A k \in (i + 1)..(Steps - 1) :
                  Step(k).call # "run_next_instruction"
           /\ CachedFetch(Step(Steps))
           /\ Step(Steps).cpc = Alias(Step(i).cpc)
           => /\ FetchHit(Step(Steps))
              /\ Step(Steps).op = Step(i).op
              /\ icache = pre.icache

\* the line filled by the fetch at 00001010 serves the fetch at 80001010
C25_Witness ==
    /\ Steps = 3
    /\ CachedFetch(Step(1)) /\ Step(1).cpc = W(0, 4112)
    /\ Len(Step(1).iloads) = 4
    /\ Step(2).call = "set_pc"
    /\ CachedFetch(Step(3)) /\ Step(3).cpc = W(32768, 4112)
    /\ Step(3).iloads = <<>>
    /\ ICacheAt(icache, 1).tag_valid = W(0, 4096)

\* the other way round, and a fetch in KSEG1 that goes past the cache
C25_DirectWitness ==
    /\ Steps = 4
    /\ CachedFetch(Step(1)) /\ Step(1).cpc = W(32768, 4112)
    /\ Step(2).call = "run_next_instruction" /\ Step(2).cpc = W(32768, 4116)
    /\ Step(3).call = "set_pc"
    /\ Step(4).cpc = W(40960, 4112) /\ Fetched(Step(4))
    /\ Step(4).cc_before.icache_enabled
    /\ Step(4).iloads = <<W(40960, 4112)>>


(***************************************************************************)
(* C26: the ticks of a fetch and of a dispatch                             *)
(***************************************************************************)
\* the ticks of the fetch of the last step
FetchTicks ==
    fetch_instruction(step_begin([pre EXCEPT !.mem = mem])).c.tk.now
        - pre.tk.now

\* C26: the fetch of a step costs 0 ticks on a cache hit, 3 + (4 - k) ticks
\* on a cache miss at index k, and 4 ticks when it is not cached (pc at or
\* above a0000000, or the cache disabled); a step that then dispatches the
\* instruction without an interrupt costs exactly 1 tick more.
C26_FetchTiming ==
    Steps >= 1 /\ Fetched(Step(Steps)) /\ Step(Steps).path = "execute" =>
        LET e   == Step(Steps)
            old == ICacheAt(pre.icache, Bucket(e.cpc))
        IN  /\ FetchTicks =
                   IF Ltu(e.cpc, W(40960, 0)) /\ e.cc_before.icache_enabled
                   THEN IF HoldsWord(old, e.cpc)
                        THEN 0
                        ELSE 3 + (4 - WordIndex(e.cpc))
                   ELSE 4
            /\ StepTicks(e) = FetchTicks + 1
            /\ tk.now = pre.tk.now + StepTicks(e)

\* a miss at index 2 (5 ticks, 6 with the dispatch), a hit at index 3 (1
\* tick with the dispatch), then a miss at index 0 of the next line (7 ticks
\* and 1)
C26_Witness ==
    /\ Steps = 4
    /\ Step(1).call = "set_pc" /\ Step(1).pc = W(32768, 4120)
    /\ CachedFetch(Step(2)) /\ Step(2).now = 6
    /\ CachedFetch(Step(3)) /\ Step(3).iloads = <<>> /\ Step(3).now = 7
    /\ CachedFetch(Step(4)) /\ Step(4).cpc = W(32768, 4128)
    /\ Step(4).path = "execute"
    /\ tk.now = 15

\* a fetch in KSEG1 with the cache enabled: 4 ticks and 1
C26_UncachedWitness ==
    /\ Steps = 2
    /\ Step(1).call = "set_pc" /\ Step(1).pc = W(40960, 4112)
    /\ Fetched(Step(2)) /\ Step(2).cc_before.icache_enabled
    /\ Step(2).path = "execute"
    /\ tk.now = 5


(***************************************************************************)
(* C29: what a cache maintenance write changes                             *)
(***************************************************************************)
\* the cache as the fetch of the last step left it, before the
\* instruction ran (an isolated store leaves memory alone)
CacheAfterFetch == fetch_instruction(step_begin([pre EXCEPT !.mem = mem])).c.icache

\* C29: a cache maintenance write (a word, of value 0, with the cache
\* enabled) to addr changes the line (addr >> 4) & ff only. In tag test
\* mode it makes the line invalid (first valid index >= 4) and leaves its
\* tag and its four words; otherwise it puts the written value at the
\* position (addr >> 2) & 3 and leaves tag_valid and the three other words.
C29_CacheMaintenanceFrame ==
    Steps >= 1 /\ IsolatedStore(Step(Steps)) =>
        LET e   == Step(Steps)
            b   == Bucket(StoreAddr(e))
            k   == WordIndex(StoreAddr(e))
            caf == CacheAfterFetch
            old == ICacheAt(caf, b)
            new == ICacheAt(icache, b)
        IN  /\ \A n \in (DOMAIN icache \cup DOMAIN caf) \ {b} :
                   ICacheAt(icache, n) = ICacheAt(caf, n)
            /\ e.cc_before.tag_test_mode =>
                   /\ (new.tag_valid[2] \div 4) % 8 >= 4
                   /\ And32(new.tag_valid, W(65535, 61440))
                          = And32(old.tag_valid, W(65535, 61440))
                   /\ new.line = old.line
            /\ ~e.cc_before.tag_test_mode =>
                   /\ new.tag_valid = old.tag_valid
                   /\ new.line[k + 1] = e.regs_before[t(e.op)]
                   /\ \A i \in 0..3 : i # k => new.line[i + 1] = old.line[i + 1]

\* out of tag test mode, sw r0, 0(r1) at 80001010 is fetched into the line
\* of bucket 1 and then clears the first word of that line (r1 = 00003010)
C29_Witness ==
    /\ Steps = 2
    /\ Step(1).call = "set_pc"
    /\ IsolatedStore(Step(2)) /\ ~Step(2).cc_before.tag_test_mode
    /\ Step(2).cpc = W(32768, 4112)
    /\ ICacheAt(CacheAfterFetch, 1).line
           = <<SW_r0_0_r1, ADDIU_r1_r0_1234, NOP, NOP>>
    /\ ICacheAt(icache, 1).line = <<Zero, ADDIU_r1_r0_1234, NOP, NOP>>
    /\ ICacheAt(icache, 1).tag_valid = W(0, 4096)

\* in tag test mode the same store makes that line invalid
C29_InvalidateWitness ==
    /\ Steps = 2
    /\ Step(1).call = "set_pc"
    /\ IsolatedStore(Step(2)) /\ Step(2).cc_before.tag_test_mode
    /\ Step(2).cpc = W(32768, 4112)
    /\ ICacheAt(icache, 1).line
           = <<SW_r0_0_r1, ADDIU_r1_r0_1234, NOP, NOP>>
    /\ ICacheAt(icache, 1).tag_valid = W(0, 4112)


(***************************************************************************)
(* C30: stores go to the cache while it is isolated, to memory otherwise   *)
(***************************************************************************)
\* the step dispatched SB, SH, SWL, SW, SWR or SWC2
DispatchedStore(e) ==
    /\ e.call = "run_next_instruction" /\ e.executed
    /\ function(e.op) \in {40, 41, 42, 43, 46, 58}

\* memory as it was before the last call, with the words the call read
\* for the first time
MemoryBefore ==
    [a \in DOMAIN mem |-> IF a \in DOMAIN pre.mem THEN pre.mem[a] ELSE mem[a]]

\* C30: a store instruction dispatched while SR.IsC is set gives nothing to
\* the interconnect: memory and the cache control register are as before
\* the step. A store instruction dispatched while IsC is clear changes no
\* line of the cache (the cache is as the fetch of the step left it), so a
\* later hit still returns the cached instruction, whatever memory now
\* holds at its address.
C30_IsolatedStoresSpareMemory ==
    /\ Steps >= 1 /\ DispatchedStore(Step(Steps)) =>
           IF Step(Steps).sr_before[1] % 2 = 1
           THEN /\ Step(Steps).stores = <<>>
                /\ mem = MemoryBefore
                /\ cache_control = pre.cc
           ELSE ~Step(Steps).panicked =>
                    icache = fetch_instruction(
                                 step_begin([pre EXCEPT !.mem = MemoryBefore])
                             ).c.icache
    /\ /\ Steps >= 1
       /\ CachedFetch(Step(Steps))
       /\ HoldsWord(ICacheAt(pre.icache, Bucket(Step(Steps).cpc)),
                    Step(Steps).cpc)
       => /\ Step(Steps).iloads = <<>>
          /\ Step(Steps).op =
                 ICacheAt(pre.icache, Bucket(Step(Steps).cpc))
                     .line[WordIndex(Step(Steps).cpc) + 1]

\* with IsC clear sw r3, 0(r1) at 80001010 overwrites its own word in
\* memory with deadbeef; the next fetch at 80001010 hits and runs the
\* store again
C30_Witness ==
    /\ Steps = 3
    /\ DispatchedStore(Step(1)) /\ Step(1).op = SW_r3_0_r1
    /\ Step(1).sr_before[1] % 2 = 0
    /\ Step(1).stores = <<W(32768, 4112)>>
    /\ Step(2).call = "set_pc" /\ Step(2).pc = W(32768, 4112)
    /\ CachedFetch(Step(3)) /\ Step(3).cpc = W(32768, 4112)
    /\ Step(3).iloads = <<>>
    /\ Step(3).op = SW_r3_0_r1
    /\ mem[W(32768, 4112)] = W(57005, 48879)

\* with IsC set and out of tag test mode swr r0, 0(r1) writes the word 0
\* into the line of bucket 1; memory keeps the store at 80001010
C30_IsolatedWitness ==
    /\ Steps = 2
    /\ Step(1).call = "set_pc" /\ Step(1).pc = W(32768, 4128)
    /\ DispatchedStore(Step(2)) /\ Step(2).op = SWR_r0_0_r1
    /\ Step(2).sr_before[1] % 2 = 1
    /\ ~fatal
    /\ Step(2).stores = <<>>
    /\ ICacheAt(icache, 1).line[1] = Zero
    /\ mem[W(32768, 4112)] = SW_r3_0_r1

(***************************************************************************)
(* C31                                                                     *)
(***************************************************************************)
\* the word a store instruction hands to Cpu::store, from the CPU before
\* the step: rt, the GTE data register, or the bytes of rt that SWL and SWR
\* merge into the aligned word of memory
StoredWord(c, op) ==
    LET addr == wrapping_add(c.regs[s(op)], imm_se(op))
        k    == addr[2] % 4
        v    == c.regs[t(op)]
        cur  == inter_load(c.mem, 4, AlignWord(addr))
        ones == W(65535, 65535)
    IN  CASE function(op) = 42 ->
                 Or32(And32(cur, Shl32(Shl32(ones, 8 * k), 8)),
                      Shr32(v, 8 * (3 - k)))
          [] function(op) = 46 ->
                 Or32(And32(cur, Shr32(Shr32(ones, 8 * (3 - k)), 8)),
                      Shl32(v, 8 * k))
          [] function(op) = 58 -> gte_data(c.gte, t(op))
          [] OTHER -> v

\* the cases of an emulator-fatal assertion: the instruction word op, met
\* by the CPU c
FatalCop0Opcode(op) == function(op) = 16 /\ cop_opcode(op) \notin {0, 4, 16}

FatalCop2Opcode(op) ==
    function(op) = 18 /\ cop_opcode(op) < 16 /\ cop_opcode(op) \notin {0, 2, 4, 6}

FatalMfc0(op) ==
    function(op) = 16 /\ cop_opcode(op) = 0
        /\ d(op) \notin {6, 7, 8, 12, 13, 14, 15}

FatalMtc0Register(op) ==
    function(op) = 16 /\ cop_opcode(op) = 4
        /\ d(op) \notin {3, 5, 6, 7, 9, 11, 12, 13}

FatalMtc0Value(c, op) ==
    function(op) = 16 /\ cop_opcode(op) = 4
        /\ d(op) \in {3, 5, 6, 7, 9, 11} /\ c.regs[t(op)] # Zero

FatalRfe(op) ==
    function(op) = 16 /\ cop_opcode(op) = 16 /\ op[2] % 64 # 16

FatalIsolatedStore(c, op) ==
    /\ function(op) \in {40, 41, 42, 43, 46, 58}
    /\ cache_isolated(c.cop0)
    /\ \/ function(op) \in {40, 41}
       \/ StoredWord(c, op) # Zero
       \/ ~c.cc.icache_enabled

FatalCase(c, op) ==
    \/ FatalCop0Opcode(op) \/ FatalCop2Opcode(op) \/ FatalMfc0(op)
    \/ FatalMtc0Register(op) \/ FatalMtc0Value(c, op) \/ FatalRfe(op)
    \/ FatalIsolatedStore(c, op)

\* C31: a step hits a fatal assertion only when its instruction word is in
\* one of the listed cases (an unhandled COP0 or COP2 opcode, MFC0 or MTC0
\* of an unhandled register, MTC0 of a non-zero value to a breakpoint
\* register, RFE with other low bits, a store with the cache isolated that
\* is not a word store of 0 or meets a disabled I-cache); every other step
\* completes, and the process is gone exactly when its last step hit one
C31_FatalOnlyInListedCases ==
    /\ fatal <=> (Steps >= 1 /\ Step(Steps).panicked)
    /\ Steps >= 1 /\ Step(Steps).call = "run_next_instruction" =>
       (Step(Steps).panicked =>
            Step(Steps).executed /\ FatalCase(pre, Step(Steps).op))

\* mtc0 r1, SR isolates the cache; swl r1, 0(r5) then stores a word of 0
\* (the top byte of r1 over the low byte of a word of 0) and completes; sw
\* r1, 0(r5) stores 00010000 and is fatal
C31_Witness ==
    /\ Steps = 3
    /\ Step(1).op = MTC0_r1_SR /\ Step(1).executed
    /\ Step(2).op = SWL_r1_0_r5 /\ Step(2).executed /\ ~Step(2).panicked
    /\ cache_isolated(pre.cop0) /\ pre.cc.icache_enabled
    /\ pre.regs[1] = W(1, 0)
    /\ Step(3).op = SW_r1_0_r5 /\ Step(3).panicked /\ fatal

\* neighbours of the fatal cases that complete: a write of 0 to a
\* breakpoint register, then an rfe with bit 6 set, then an illegal
\* instruction, which raises the guest exception
C31_CompletesWitness ==
    /\ Steps = 3 /\ ~fatal
    /\ Step(1).op = MTC0_r0_r3 /\ Step(1).executed
    /\ Step(2).op = RFE_bit6 /\ Step(2).executed
    /\ Step(3).op = ILLEGAL /\ Step(3).exc = <<"IllegalInstruction">>

(***************************************************************************)
(* C32                                                                     *)
(***************************************************************************)
\* the step raised an exception from the handler of its instruction
RaisedByInstruction(e) ==
    e.call = "run_next_instruction" /\ e.executed /\ e.exc # <<>>

\* the step raised the LoadAddressError of a misaligned PC, before any fetch
RaisedBeforeFetch(e) ==
    e.call = "run_next_instruction" /\ e.path = "misaligned"

\* C32: a step whose dispatched instruction raises an exception
\* (IllegalInstruction, CoprocessorError, Overflow, SysCall, Break, an
\* address error of a load or a store) commits the load that was pending
\* at its start to the register file and leaves the load slot empty when
\* the handler starts; the step that raises LoadAddressError for a
\* misaligned PC leaves the pending load and the registers as they were.
C32_ExceptionsCommitPendingLoad ==
    Steps >= 1 /\ ~fatal =>
        /\ RaisedByInstruction(Step(Steps)) =>
               /\ load = <<0, Zero>>
               /\ regs = RegsAfterPendingLoad
               /\ pc = Vector(pre.cop0)
        /\ RaisedBeforeFetch(Step(Steps)) =>
               /\ Step(Steps).exc = <<"LoadAddressError">>
               /\ load = pre.load
               /\ regs = pre.regs
               /\ pc = Vector(pre.cop0)

\* lw r3, 0(r5) leaves cafebabe on its way to r3; the add that follows
\* overflows: r3 holds cafebabe when the handler starts
C32_Witness ==
    /\ Steps = 2 /\ ~fatal
    /\ Step(1).op = LW_r3_0_r5 /\ pre.load = <<3, W(51966, 47806)>>
    /\ pre.regs[3] = W(57005, 48879)
    /\ Step(2).op = ADD_r3_r1_r2 /\ Step(2).exc = <<"Overflow">>
    /\ regs[3] = W(51966, 47806) /\ load = <<0, Zero>>

\* jr r4 to 80000101 with lw r3, 0(r5) in its delay slot: the step at
\* 80000101 raises LoadAddressError with cafebabe still on its way to r3
C32_MisalignedPcWitness ==
    /\ Steps = 3 /\ ~fatal
    /\ Step(1).op = JR_r4 /\ Step(2).op = LW_r3_0_r5
    /\ Step(3).path = "misaligned" /\ Step(3).cpc = W(32768, 257)
    /\ load = <<3, W(51966, 47806)>> /\ regs[3] = W(57005, 48879)

(***************************************************************************)
(* C36                                                                     *)
(***************************************************************************)
\* the step dispatched SH to an odd address, or SW or SWC2 to an address
\* that is not a multiple of 4
MisalignedStore(e) ==
    /\ e.call = "run_next_instruction" /\ e.executed
    /\ \/ function(e.op) = 41 /\ StoreAddr(e)[2] % 2 # 0
       \/ function(e.op) \in {43, 58} /\ StoreAddr(e)[2] % 4 # 0

\* the step dispatched LH or LHU from an odd address, or LW or LWC2 from an
\* address that is not a multiple of 4
MisalignedLoad(e) ==
    /\ e.call = "run_next_instruction" /\ e.executed
    /\ \/ function(e.op) \in {33, 37} /\ StoreAddr(e)[2] % 2 # 0
       \/ function(e.op) \in {35, 50} /\ StoreAddr(e)[2] % 4 # 0

\* the step gave nothing to Interconnect::store and memory is as before
StoredNothing(e) == e.stores = <<>> /\ mem = MemoryBefore

\* the misaligned loads raise LoadAddressError, install no load and leave
\* the GTE alone
MisalignedLoadsRaise ==
    Steps >= 1 /\ ~fatal /\ MisalignedLoad(Step(Steps)) =>
        /\ Step(Steps).exc = <<"LoadAddressError">>
        /\ load = <<0, Zero>>
        /\ gte = pre.gte

\* C36 for SH and SW, and for the loads: a misaligned SH or SW raises
\* StoreAddressError and stores nothing, a misaligned LH, LHU, LW or LWC2
\* raises LoadAddressError and installs no load, and no store instruction
\* other than SWC2 raises LoadAddressError
C36_ButSwc2 ==
    /\ MisalignedLoadsRaise
    /\ Steps >= 1 /\ ~fatal /\ MisalignedStore(Step(Steps))
            /\ function(Step(Steps).op) # 58 =>
           /\ Step(Steps).exc = <<"StoreAddressError">>
           /\ StoredNothing(Step(Steps))
    /\ Steps >= 1 /\ ~fatal /\ Step(Steps).call = "run_next_instruction"
            /\ Step(Steps).executed
            /\ function(Step(Steps).op) \in {40, 41, 42, 43, 46, 56, 57, 59} =>
           \A i \in DOMAIN Step(Steps).exc :
               Step(Steps).exc[i] # "LoadAddressError"

\* C36: every misaligned SH, SW or SWC2 raises StoreAddressError and
\* performs no store, every misaligned LH, LHU, LW or LWC2 raises
\* LoadAddressError and installs no load, and no store instruction raises
\* LoadAddressError.
C36_MisalignedAccesses ==
    /\ MisalignedLoadsRaise
    /\ Steps >= 1 /\ ~fatal /\ MisalignedStore(Step(Steps)) =>
           /\ Step(Steps).exc = <<"StoreAddressError">>
           /\ StoredNothing(Step(Steps))
    /\ Steps >= 1 /\ ~fatal /\ Step(Steps).call = "run_next_instruction"
            /\ Step(Steps).executed
            /\ function(Step(Steps).op) \in {40, 41, 42, 43, 46} \cup 56..59 =>
           \A i \in DOMAIN Step(Steps).exc :
               Step(Steps).exc[i] # "LoadAddressError"

\* swc2 cop2r0, 0(r6) with r6 = 80000102 stores nothing and raises
\* LoadAddressError
C36_Witness ==
    /\ Steps = 1 /\ ~fatal
    /\ Step(1).op = SWC2_0_0_r6 /\ MisalignedStore(Step(1))
    /\ StoredNothing(Step(1))
    /\ Step(1).exc = <<"LoadAddressError">>

\* sh r0, 0(r4) with r4 = 80000101 raises StoreAddressError, then
\* lwc2 cop2r0, 0(r6) raises LoadAddressError
C36_OthersWitness ==
    /\ Steps = 2 /\ ~fatal
    /\ Step(1).op = SH_r0_0_r4 /\ Step(1).exc = <<"StoreAddressError">>
    /\ Step(2).op = LWC2_0_0_r6 /\ Step(2).exc = <<"LoadAddressError">>
    /\ Step(1).stores = <<>> /\ Step(2).stores = <<>>

(***************************************************************************)
(* C33                                                                     *)
(***************************************************************************)
\* the fetch of the last step, made on the CPU as the head of the step
\* leaves it
FetchOfStep == fetch_instruction(step_begin([pre EXCEPT !.mem = mem]))

\* C33: in every step, (1) the peripherals are synchronised iff the
\* synchronisation was pending when the step started, and the next one is
\* asked for from the time of before the fetch: the ticks of the fetch and
\* of the dispatch cause no synchronisation in the same step; (2) current_pc
\* is the pc of before the step, also on the misaligned path; (3) a
\* misaligned pc ends the step with no fetch and no tick; (4) otherwise the
\* fetch is made, with its ticks, also when the interrupt is taken; (5)
\* delay_slot is the branch flag of before the step when (6) the interrupt
\* state is sampled, after the fetch, on the Cop0 state of before the step;
\* (7) the instruction is dispatched or, when the sample is active, the
\* Interrupt exception is entered with the EPC and BD of the advanced
\* delay_slot.
C33_OrderWithinStep ==
    Steps >= 1 /\ ~fatal /\ Step(Steps).call = "run_next_instruction" =>
        LET e      == Step(Steps)
            synced == sync_pending(pre.tk)
        IN  /\ tk.syncs = pre.tk.syncs + (IF synced THEN 1 ELSE 0)
            /\ tk.next_sync = IF synced THEN pre.tk.now + SyncPeriod
                                        ELSE pre.tk.next_sync
            /\ current_pc = pre.pc
            /\ IF pre.pc[2] % 4 # 0
               THEN /\ e.path = "misaligned" /\ ~e.executed
                    /\ e.iloads = <<>> /\ tk.now = pre.tk.now
                    /\ icache = pre.icache
               ELSE /\ e.iloads = FetchOfStep.c.iloads
                    /\ e.op = FetchOfStep.instruction
                    /\ delay_slot = pre.branch
                    /\ e.path = IF irq_active(pre.cop0, e.irq)
                                THEN "interrupt" ELSE "execute"
                    /\ e.path = "execute" =>
                           e.executed /\ tk.now = FetchOfStep.c.tk.now + 1
                    /\ e.path = "interrupt" =>
                           /\ e.exc # <<>> /\ e.exc[Len(e.exc)] = "Interrupt"
                           /\ tk.now = FetchOfStep.c.tk.now + 1
                                           + (IF e.executed THEN 1 ELSE 0)
                           /\ ~e.executed =>
                                  /\ regs = pre.regs /\ load = pre.load
                                  /\ CauseBD(cop0) <=> pre.branch
                                  /\ cop0.epc =
                                         IF pre.branch
                                         THEN wrapping_sub(current_pc, U(4))
                                         ELSE current_pc

\* the second step takes the time from 5 to 10, past the synchronisation
\* asked for at 8, and synchronises nothing; the third step synchronises,
\* fetches its instruction and then takes the interrupt
C33_Witness ==
    /\ Steps = 3 /\ ~fatal
    /\ Step(2).now = 10 /\ pre.tk.syncs = 0 /\ pre.tk.next_sync = 8
    /\ tk.syncs = 1 /\ tk.next_sync = 18
    /\ Step(3).path = "interrupt" /\ ~Step(3).executed
    /\ Step(3).iloads = <<pre.pc>> /\ tk.now = 15

\* jr r1 to 7fffffff: the misaligned step synchronises and sets current_pc,
\* and neither fetches nor ticks
C33_MisalignedWitness ==
    /\ Steps = 3 /\ ~fatal
    /\ Step(1).op = JR_r1 /\ Step(3).path = "misaligned"
    /\ current_pc = W(32767, 65535)
    /\ tk.syncs = 1 /\ tk.now = 10 /\ tk.next_sync = 18

(***************************************************************************)
(* C34                                                                     *)
(***************************************************************************)
\* a Word was just loaded from an image that holds the data of Bios::dummy
LoadedFromDummy ==
    ret.call = "load" /\ bios.data = Bios_dummy.data /\ ret.offset % 4 = 0

\* C34: a little-endian Word load from the dummy BIOS returns 7badb105 at
\* every 4-aligned offset of the image.
C34_DummyWord == LoadedFromDummy => ret.value = W(31661, 45317)

\* what the loads return: c4104105, the bytes 05, 41, 10, c4 of 7badb105
\* shifted right by 0, 2, 4 and 6 bits
C34_WordOfTheCode == LoadedFromDummy => ret.value = W(50192, 16645)

\* Bios::dummy() then load::<Word>(4)
C34_Witness ==
    /\ LoadedFromDummy /\ ret.offset = 4 /\ ret.n = 2
    /\ bios = Bios_dummy
    /\ ret.value = W(50192, 16645)

(***************************************************************************)
(* C35                                                                     *)
(***************************************************************************)
\* the last step entered at most one exception, and pushed the mode stack
\* of SR once if it entered one
OneExceptionAtMost(e) ==
    /\ Len(e.exc) <= 1
    /\ e.exc # <<>> =>
           /\ Pairs(e.sr) = Pushed(Pairs(e.sr_before))
           /\ (cop0.cause[2] \div 4) % 32 = ExceptionCode(e.exc[1])

\* C35: each run_next_instruction enters at most one exception: the mode
\* stack of SR is pushed at most once, and EPC and the exception code of
\* CAUSE are written at most once, for every instruction word and every
\* interrupt state.
C35_AtMostOneException ==
    Steps >= 1 /\ ~fatal /\ Step(Steps).call = "run_next_instruction" =>
        OneExceptionAtMost(Step(Steps))

\* C35 for every instruction word but those of COP1 (primary opcode 010001)
C35_ButCop1 ==
    Steps >= 1 /\ ~fatal /\ Step(Steps).call = "run_next_instruction"
        /\ function(Step(Steps).op) # 17 =>
        OneExceptionAtMost(Step(Steps))

\* an interrupt is requested at the step that fetches a COP1 instruction:
\* CoprocessorError, then Interrupt, and the mode stack pushed twice
C35_Witness ==
    /\ Steps = 1 /\ ~fatal
    /\ Step(1).op = COP1 /\ Step(1).irq /\ Step(1).path = "interrupt"
    /\ Step(1).exc = <<"CoprocessorError", "Interrupt">>
    /\ Pairs(cop0.sr) = Pushed(Pushed(Pairs(pre.cop0.sr)))
    /\ (cop0.cause[2] \div 4) % 32 = ExceptionCode("Interrupt")

(***************************************************************************)
(* C40                                                                     *)
(***************************************************************************)
\* C40: every call of run_next_instruction advances the timekeeper by at
\* least 1 tick, on every path (dispatch, interrupt entry, misaligned PC).
C40_EveryStepTicks ==
    Steps >= 1 /\ ~fatal /\ Step(Steps).call = "run_next_instruction" =>
        tk.now >= pre.tk.now + 1

\* C40 for the steps that fetch: the dispatch and the interrupt entry take
\* at least 1 tick
C40_FetchedStepsTick ==
    Steps >= 1 /\ ~fatal /\ Fetched(Step(Steps)) => tk.now >= pre.tk.now + 1

\* jr r1 to 7fffffff and its delay slot take the time to 10; the step at
\* 7fffffff raises LoadAddressError and leaves the time at 10
C40_Witness ==
    /\ Steps = 3 /\ ~fatal
    /\ Step(1).op = JR_r1 /\ Step(3).path = "misaligned"
    /\ Step(3).exc = <<"LoadAddressError">>
    /\ pre.tk.now = 10 /\ tk.now = 10

(***************************************************************************)
(* C38                                                                     *)
(***************************************************************************)
\* the last call is a step, and the call before it force_pc(p)
StepAfterForcePc ==
    /\ Steps >= 2 /\ ~fatal
    /\ Step(Steps - 1).call = "force_pc"
    /\ Step(Steps).call = "run_next_instruction"

\* the step is at p, without delay slot: an exception it raises records
\* EPC = p and clears CAUSE.BD
AtForcedPcWithoutDelaySlot ==
    /\ current_pc = Step(Steps - 1).pc
    /\ Step(Steps).path # "misaligned" => ~delay_slot
    /\ Step(Steps).exc # <<>> =>
           cop0.epc = Step(Steps - 1).pc /\ ~CauseBD(cop0)

\* C38: the step that follows force_pc(p) executes the instruction at p
\* with delay_slot = false, whatever was executed before the call (a taken
\* branch or jump included): an exception raised in that step records EPC =
\* p with CAUSE.BD clear.
C38_ForcePcDropsDelaySlot == StepAfterForcePc => AtForcedPcWithoutDelaySlot

\* C38 when the instruction executed before force_pc left no branch flag,
\* or p is misaligned
C38_AfterNoBranch ==
    StepAfterForcePc /\ (~pre.branch \/ Step(Steps).path = "misaligned") =>
        AtForcedPcWithoutDelaySlot

\* jr r1 at 80001000, then force_pc(80001000), then the step at 80001000
\* again, which takes an interrupt: BD is set and EPC = 80000ffc
C38_Witness ==
    /\ StepAfterForcePc /\ Steps = 3
    /\ Step(1).op = JR_r1 /\ Step(1).executed
    /\ pre.branch /\ ~pre.delay_slot /\ pre.pc = W(32768, 4096)
    /\ Step(3).cpc = W(32768, 4096) /\ Step(3).exc = <<"Interrupt">>
    /\ delay_slot /\ CauseBD(cop0) /\ cop0.epc = W(32768, 4092)

(***************************************************************************)
(* C39                                                                     *)
(***************************************************************************)
\* C39: LWL rt, A + 3 followed at once by LWR rt, A and one more
\* instruction leaves in rt the little-endian word of the bytes A..A + 3 of
\* memory, for the four values of A mod 4 and whatever rt held. The pair
\* installs one delayed load: the register file keeps the prior value of
\* rt through both steps (the result of the LWL is never written to it),
\* the LWR leaves the whole word in the load slot, merged with the pending
\* result of the LWL, and the third instruction commits it.
C39_LwlLwrPair ==
    \A p \in 0..4 :
        LwlLwrNop(Steps, p + 3, p) =>
            LET word  == UnalignedWord(mem, wrapping_add(regs[1], U(p)))
                prior == Step(Steps - 2).regs_before[2]
            IN  /\ regs[2] = word
                /\ load = <<0, Zero>>
                /\ Step(Steps - 2).regs[2] = prior
                /\ Step(Steps - 2).load[1] = 2
                /\ Step(Steps - 1).regs[2] = prior
                /\ Step(Steps - 1).load = <<2, word>>

\* lwl r2, 4(r1), lwr r2, 1(r1), nop over the bytes 11 22 33 44 55 ..:
\* r2 = 55443322 from deadbeef, which the register holds until the nop
C39_Witness ==
    /\ Steps = 3 /\ LwlLwrNop(3, 4, 1)
    /\ Step(1).regs_before[2] = W(57005, 48879)
    /\ Step(1).load = <<2, W(21933, 48879)>>
    /\ Step(2).regs[2] = W(57005, 48879)
    /\ Step(2).load = <<2, W(21828, 13090)>>
    /\ regs[2] = W(21828, 13090)

(***************************************************************************)
(* C37                                                                     *)
(***************************************************************************)
\* the fetch of the step was a hit: through the cache, with no load
HitStep(e) == CachedFetch(e) /\ e.iloads = <<>>

\* the addresses a and b have the same tag, bucket and index: their bits
\* [30:2] are equal
SameSlot(a, b) == And32(a, W(32767, 65532)) = And32(b, W(32767, 65532))

\* the fill of step k loaded the word w from the interconnect for an
\* address with the tag, bucket and index of a
FilledBy(k, a, w) ==
    /\ CachedFetch(Step(k))
    /\ \E i \in DOMAIN Step(k).iloads :
           SameSlot(Step(k).iloads[i], a) /\ mem[Step(k).iloads[i]] = w

\* the cache maintenance store of step k wrote the word w (0, the only
\* value it takes) at the bucket and index of a
WrittenBy(k, a, w) ==
    /\ WritesCacheWord(Step(k))
    /\ Bucket(StoreAddr(Step(k))) = Bucket(a)
    /\ WordIndex(StoreAddr(Step(k))) = WordIndex(a)
    /\ w = Zero

\* the word of the hit of the last step came from the interconnect or from
\* a cache maintenance store
HitWordWasLoadedOrWritten ==
    \E k \in 1..(Steps - 1) :
        \/ FilledBy(k, Step(Steps).cpc, Step(Steps).op)
        \/ WrittenBy(k, Step(Steps).cpc, Step(Steps).op)

\* nothing was fetched through the cache before the last step
FirstCachedFetch == \A k \in 1..(Steps - 1) : ~CachedFetch(Step(k))

\* no fill went to the bucket of a before the last step
NeverFilled(a) ==
    \A k \in 1..(Steps - 1) :
        CachedFetch(Step(k)) =>
            \A i \in DOMAIN Step(k).iloads : Bucket(Step(k).iloads[i]) # Bucket(a)

C37_FillWitness ==
    /\ Steps = 4 /\ ~fatal
    /\ Step(1).call = "set_pc"
    /\ Step(2).cpc = W(32768, 4228) /\ Len(Step(2).iloads) = 3
    /\ Step(3).call = "set_pc"
    /\ Step(4).cpc = W(32768, 4224) /\ Len(Step(4).iloads) = 4

\* a fill at 80001084, the cache isolated by mtc0, the store that writes 0
\* over the word of index 1, and the hit at 80001084 that returns this 0
\* while the interconnect holds the mtc0
C37_WrittenWitness ==
    /\ Steps = 5 /\ ~fatal
    /\ Step(2).cpc = W(32768, 4228) /\ Step(2).op = MTC0_r1_SR
    /\ WritesCacheWord(Step(3))
    /\ Step(5).cpc = W(32768, 4228) /\ HitStep(Step(5))
    /\ Step(5).op = Zero /\ mem[W(32768, 4228)] = MTC0_r1_SR

====
